---- MODULE Spec2Model ----
(***************************************************************************)
(* pg_dbms_job scheduler: the event loop of main.rs, the claim statements  *)
(* and the worker protocol of jobs.rs, the pool helpers of process.rs and  *)
(* the part of read_config that sets job_queue_processes.                  *)
(*                                                                         *)
(* The database is a collaborator: every SQL statement is one atomic step  *)
(* (autocommit, READ COMMITTED row re-check).  A statement can fail where  *)
(* the code inspects its result (the claims, connect, fork, SET ROLE,      *)
(* BEGIN, SET LOCAL, the DO block, COMMIT, ROLLBACK, the first DELETE of   *)
(* delete_job, the history INSERT); the UPDATEs and the DELETE whose       *)
(* result is discarded with `let _ =` are modelled as executed.            *)
(* Time is a discrete clock `now`; get_next_date(interval) is now +        *)
(* interval.  Of a job body (`what`) the model keeps the SQLSTATE it raises *)
(* when it fails; whether it fails is an input of each run.  A fork returns *)
(* the smallest pid not in use.  total_time and run_duration are not       *)
(* modelled.                                                               *)
(***************************************************************************)
EXTENDS Integers, FiniteSets, Sequences, Bags, TLC

\* ------------------------------------------------------------------ bounds
MaxTime == 1
MaxProcs == 2
\* failures the environment injects in one run (statement, connect, fork)
MaxFaults == 1
\* lines a log file holds at most
MaxLines == 2

\* ------------------------------------------------------- program constants
\* SQL NULL / Option::None of a number and of a user name
NULL == -1
NoUser == "<none>"
\* config.job_queue_interval, in ticks of the clock
job_queue_interval == 1

\* values of job_queue_processes a configuration file can hold
FileProcs == 0..MaxProcs

\* values of the pidfile key, and the absence of the pid file
Paths == {"/run/a.pid", "/run/b.pid"}
NoPath == "<absent>"

\* values of the database key, and the absence of a session
DbNames == {"db1", "db2"}
NoDb == "<closed>"

\* a key without a line in the configuration file
NoLine == "<no line>"
NoValue == -1

\* values of the debug and port keys as they stand in the file
DebugLines == {"0", "1", NoLine}
PortLines == {"0", "5432", "5433", "70000", "abc", NoLine}

\* the pidfile, database and debug lines of a configuration file
ConfFiles == [pidfile : Paths, database : DbNames, debug : DebugLines]

\* the lines of the keys pidfile, job_queue_processes, database, port and
\* debug a configuration file can hold
FileLines == [pidfile : Paths \cup {NoLine},
              job_queue_processes : FileProcs \cup {NoValue},
              database : DbNames \cup {NoLine},
              port : PortLines,
              debug : DebugLines]

\* args.debug_override, an Option<bool>
NoOverride == {}
Overrides == {NoOverride, {TRUE}, {FALSE}}

\* two daemons started against the same database, the pid a pid file
\* holds (a stale file holds the pid of a process that is gone)
Daemons == {1, 2}
NoPid == 0
StalePid == 3

\* config.logfile: none, a plain name, a name with a strftime pattern
LogFiles == {"", "/log/a.log", "/log/%d.log"}
\* the severity levels handed to dprint
Levels == {"DEBUG", "debug", "LOG"}
\* the number of lines of a file that does not exist
NoFile == -1

\* the same keys of Config and DbInfo
Configs == [pidfile : Paths, job_queue_processes : 1..MaxProcs,
            database : DbNames, port : {5432, 5433}, debug : BOOLEAN]

VARIABLES
    pc,                      \* position of the event loop in main()
    single,                  \* args.single
    terminate_flag,          \* set by SIGTERM / SIGINT
    reload_flag,             \* set by SIGHUP
    job_queue_processes,     \* config.job_queue_processes
    config_pidfile,          \* config.pidfile
    pidfile,                 \* the path at which the pid file resides
    dbinfo,                  \* dbinfo.database
    conffile,                \* pidfile, database and debug lines of the
                             \* configuration file
    debug,                   \* config.debug
    debug_override,          \* args.debug_override
    dbh,                     \* TRUE while the main session is open
    dbh_dbinfo,              \* the DbInfo the main session was opened with
    startup,
    config_invalidated,
    async_count,             \* TRUE when async_count > 0
    scheduled_count,         \* TRUE when scheduled_count > 0
    scheduled_jobs,          \* HashMap<i64, Job>
    async_jobs,              \* HashMap<i64, Job>
    keys,                    \* scheduled_keys / async_keys still to iterate
    running_pids,            \* HashSet<Pid>
    previous_async_exec,
    previous_scheduled_exec,
    workers,                 \* the forked children, by pid
    now,                     \* wall clock
    notifications,           \* channels with a pending notification
    all_async_jobs,          \* table dbms_job.all_async_jobs
    all_scheduled_jobs,      \* table dbms_job.all_scheduled_jobs
    history,                 \* table all_scheduler_job_run_details, a bag
    claims,                  \* log of the rows returned by claim statements
    claim_err,               \* claim statements that failed in this tick
    claimed_before,          \* length of `claims` when this tick began
    spawned,                 \* claims handed to spawn_job
    respawn,                 \* TRUE once a claim was handed to spawn_job twice
    dirty,                   \* TRUE once a scheduled worker did not commit
    faults,                  \* failures injected so far
    rc_config,               \* Config and DbInfo handed to read_config
    rc_file,                 \* the lines its last call read
    rc_lines,                \* keys of the 'Setting <key> ...' lines it logged
    rc_errors,               \* keys of the 'Invalid <key> value' lines
    d_pc,                    \* position of each of two daemons in main()
    d_pidfile,               \* config.pidfile of each daemon
    fs,                      \* the pid held by the file at each path
    backends,                \* state of each daemon's main session in
                             \* pg_stat_activity
    log_files,               \* the number of lines of each log file
    old_log_file,            \* static OLD_LOG_FILE of dprint
    log_call,                \* the arguments of the last call of dprint
    log_out,                 \* what the last call of dprint did
    prev_write,              \* the call of dprint before it that wrote
    sub                      \* one worker, statement by statement

flagvars == <<terminate_flag, reload_flag>>
filevars == <<config_pidfile, pidfile, dbinfo, conffile, debug,
              debug_override>>
rcvars == <<rc_config, rc_file, rc_lines, rc_errors>>
startvars == <<d_pc, d_pidfile, fs, backends>>
dprintvars == <<log_files, old_log_file, log_call, log_out, prev_write>>
unitvars == <<dprintvars, sub>>
confvars == <<single, job_queue_processes, filevars, rcvars, unitvars,
              startvars>>
sessvars == <<dbh, dbh_dbinfo, startup, config_invalidated>>
countvars == <<async_count, scheduled_count>>
mapvars == <<scheduled_jobs, async_jobs, keys>>
timervars == <<previous_async_exec, previous_scheduled_exec>>
poolvars == <<running_pids, workers>>
loopvars == <<pc, flagvars, confvars, sessvars, countvars, mapvars, timervars,
              running_pids>>
envvars == <<now, notifications>>
dbvars == <<all_async_jobs, all_scheduled_jobs, history>>
logvars == <<claims, claim_err, claimed_before, spawned, respawn, dirty>>
vars == <<loopvars, workers, envvars, dbvars, logvars, faults>>

\* ----------------------------------------------------------------- helpers
EmptyMap == [j \in {} |-> 0]

Min(S) == CHOOSE x \in S : \A y \in S : x <= y

RECURSIVE SetToSeq(_)
SetToSeq(S) == IF S = {} THEN <<>> ELSE <<Min(S)>> \o SetToSeq(S \ {Min(S)})

IndexOf(s, x) == CHOOSE i \in DOMAIN s : s[i] = x

\* HashMap::insert of every entry of m2 into m1
MapInsertAll(m1, m2) ==
    [j \in DOMAIN m1 \cup DOMAIN m2 |-> IF j \in DOMAIN m2 THEN m2[j] ELSE m1[j]]

Remove(t, S) == [j \in DOMAIN t \ S |-> t[j]]

\* a statement, connect or fork fails / does not fail
Fault == faults < MaxFaults /\ faults' = faults + 1
NoFault == faults' = faults

\* ---------------------------------------------------------------- config.rs
\* "job_queue_processes" branch of read_config: only a positive value is set
ReadProcs(cur, val) == IF val > 0 THEN val ELSE cur

\* the numbers the values of a file denote
NumberOf == "0" :> 0 @@ "1" :> 1 @@ "5432" :> 5432 @@ "5433" :> 5433
            @@ "70000" :> 70000

\* str::parse for an integer type with the range lo..hi
parse(val, lo, hi) ==
    IF val \in DOMAIN NumberOf /\ lo <= NumberOf[val] /\ NumberOf[val] <= hi
        THEN [ok |-> TRUE, v |-> NumberOf[val]]
        ELSE [ok |-> FALSE, v |-> 0]

\* config.rs 249-250: "port" branch, val.parse::<u16>() and v > 0
ReadPort(cur, val) ==
    LET p == parse(val, 0, 65535)
    IN IF val /= NoLine /\ p.ok /\ p.v > 0 THEN p.v ELSE cur

\* config.rs 66-67: "debug" branch, val.parse::<i32>().unwrap_or(0) != 0
ReadDebug(cur, val) ==
    LET p == parse(val, -2147483647 - 1, 2147483647)
    IN IF val = NoLine THEN cur ELSE p.ok /\ p.v /= 0

\* --------------------------------------------------------- claim statements
\* WHERE clause of the first statement of get_async_jobs
AsyncWhere_noThisDate(r) == TRUE
AsyncWhere(r) == r.this_date = NULL

\* WHERE clause of the second statement of get_async_jobs
OneShotWhere(r) == r.this_date = NULL /\ r.interval = NULL /\ r.next_date <= now

\* WHERE clause of the statement of get_scheduled_jobs
ScheduledWhere(r) ==
    r.interval /= NULL /\ ~r.broken /\ r.this_date = NULL /\ r.next_date <= now

get_next_date(interval) == now + interval

\* SET clause of the claims of get_async_jobs
AsyncSet(r) == [r EXCEPT !.this_date = now]

\* SET clause of the claim of get_scheduled_jobs
ScheduledSet(r) == [r EXCEPT !.this_date = now,
                             !.next_date = get_next_date(r.interval),
                             !.instance = r.instance + 1]

\* WHERE and SET clause of claim statement stmt
Where(stmt, r) ==
    IF stmt = "async_1" THEN AsyncWhere(r)
    ELSE IF stmt = "async_2" THEN OneShotWhere(r)
    ELSE ScheduledWhere(r)

Set(stmt, r) == IF stmt = "scheduled" THEN ScheduledSet(r) ELSE AsyncSet(r)

\* the rows a claim statement returns, in a fixed order
Returned(t, stmt) == SetToSeq({j \in DOMAIN t : Where(stmt, t[j])})

\* the table after a claim statement
Claimed(t, stmt) ==
    [j \in DOMAIN t |-> IF Where(stmt, t[j]) THEN Set(stmt, t[j]) ELSE t[j]]

\* the Job built from a returned row; cid and src identify the claim
MkJob(t, tbl, j, cid) ==
    [job |-> j, what |-> t[j].what, log_user |-> t[j].log_user,
     schema_user |-> t[j].schema_user, cid |-> cid, src |-> tbl]

\* the HashMap a claim statement's rows are inserted into
JobsOf(t, tbl, stmt) ==
    LET ret == Returned(t, stmt)
    IN [j \in {ret[i] : i \in DOMAIN ret} |->
            MkJob(t, tbl, j, Len(claims) + IndexOf(ret, j))]

\* the log entries of the rows a claim statement returns
LogOf(t, tbl, stmt, loop) ==
    LET ret == Returned(t, stmt)
    IN [i \in DOMAIN ret |->
            [tbl |-> tbl, job |-> ret[i], at |-> now, loop |-> loop,
             pre |-> t[ret[i]].this_date,
             inst0 |-> IF tbl = "scheduled" THEN t[ret[i]].instance ELSE 0,
             fail0 |-> IF tbl = "scheduled" THEN t[ret[i]].failures ELSE 0]]

\* first statement of get_async_jobs, issued by event loop `loop`
StmtAsync1(loop) ==
    /\ all_async_jobs' = Claimed(all_async_jobs, "async_1")
    /\ claims' = claims \o LogOf(all_async_jobs, "async", "async_1", loop)
    /\ UNCHANGED <<all_scheduled_jobs, history>>

\* second statement of get_async_jobs
StmtAsync2(loop) ==
    /\ all_scheduled_jobs' = Claimed(all_scheduled_jobs, "async_2")
    /\ claims' = claims \o
           LogOf(all_scheduled_jobs, "scheduled", "async_2", loop)
    /\ UNCHANGED <<all_async_jobs, history>>

\* statement of get_scheduled_jobs
StmtScheduled(loop) ==
    /\ all_scheduled_jobs' =
           Claimed(all_scheduled_jobs, "scheduled")
    /\ claims' = claims \o
           LogOf(all_scheduled_jobs, "scheduled", "scheduled", loop)
    /\ UNCHANGED <<all_async_jobs, history>>

\* ------------------------------------------------------------------ workers
NoJob == [job |-> 0, what |-> "", log_user |-> NoUser, schema_user |-> NoUser,
          cid |-> 0, src |-> "none"]

\* the child right after fork
Forked(kind, job) ==
    [pc |-> "run", kind |-> kind, job |-> job, status_text |-> "",
     err_text |-> "", sqlstate |-> "", outcome |-> "none", del_err |-> FALSE]

\* a child that has exited and waits to be reaped
Exited == [Forked("none", NoJob) EXCEPT !.pc = "exit"]

\* handles whose worker has finished
Finished == {w \in running_pids : workers[w].pc = "exit"}

\* reap_children: drop the finished handles
reap_children_all(running) == {}
reap_children(running) == running \ Finished

\* the process table after the finished children were waited for
Reaped == [w \in DOMAIN workers \ Finished |-> workers[w]]

\* --------------------------------------------------------------------- Init
\* The tables at start hold either an asynchronous job and a one-shot
\* scheduled job with the same job id, or one recurring scheduled job.
InitAsync == [j \in {1} |->
    [what |-> "P0001", this_date |-> NULL, log_user |-> "alice",
     schema_user |-> NoUser]]

InitScheduled(ivl) == [j \in {1} |->
    [what |-> "23505", interval |-> ivl, this_date |-> NULL, next_date |-> 0,
     last_date |-> NULL, failures |-> 1, instance |-> 0, broken |-> FALSE,
     log_user |-> NoUser, schema_user |-> "app"]]

InitLoop ==
    /\ pc = "top"
    /\ single \in BOOLEAN
    /\ terminate_flag = FALSE
    /\ reload_flag = FALSE
    /\ job_queue_processes = MaxProcs
    /\ conffile = [pidfile |-> "/run/a.pid", database |-> "db1",
                   debug |-> NoLine]
    /\ config_pidfile = conffile.pidfile
    /\ pidfile = config_pidfile
    /\ dbinfo = conffile.database
    /\ dbh = FALSE
    /\ dbh_dbinfo = NoDb
    /\ startup = TRUE
    /\ config_invalidated = FALSE
    /\ async_count = FALSE
    /\ scheduled_count = FALSE
    /\ scheduled_jobs = EmptyMap
    /\ async_jobs = EmptyMap
    /\ keys = {}
    /\ running_pids = {}
    /\ previous_async_exec = 0
    /\ previous_scheduled_exec = 0
    /\ workers = EmptyMap
    /\ now = 0
    /\ notifications = {}
    /\ history = EmptyBag
    /\ claims = <<>>
    /\ claim_err = {}
    /\ claimed_before = 0
    /\ spawned = {}
    /\ respawn = FALSE
    /\ dirty = FALSE
    /\ faults = 0

\* a configuration file without lines
NoLines == [pidfile |-> NoLine, job_queue_processes |-> NoValue,
            database |-> NoLine, port |-> NoLine, debug |-> NoLine]

\* main.rs 300 and 51-58: config.debug when the loop is entered, the default
\* with the file read over it and the command line over both
DebugAtStart(override) ==
    IF override = NoOverride THEN ReadDebug(FALSE, conffile.debug)
    ELSE TRUE \in override

\* dbinfo.port when no file of the loop has a port line
DefaultPort == 5432

\* read_config before its first call on the values `config`
BeforeReadConfig(config) ==
    /\ rc_config = config
    /\ rc_file = NoLines
    /\ rc_lines = {}
    /\ rc_errors = {}

\* Config and DbInfo of the loop
LoopConfig ==
    [pidfile |-> config_pidfile,
     job_queue_processes |-> job_queue_processes,
     database |-> dbinfo, port |-> DefaultPort, debug |-> debug]

\* main.rs 51-58: the values of Config and DbInfo the loop runs with
InitConfig(override) ==
    /\ debug_override = override
    /\ debug = DebugAtStart(override)
    /\ BeforeReadConfig(LoopConfig)

\* main.rs 35-50: two daemons are about to start with the pid file paths
\* `pidfiles`, `files` are the pid files that exist
BeforeStart(pidfiles, files) ==
    /\ d_pc = [d \in Daemons |-> "start"]
    /\ d_pidfile = pidfiles
    /\ fs = files
    /\ backends = [d \in Daemons |-> "none"]

\* the start of the daemons is not looked at
InitStart ==
    BeforeStart([d \in Daemons |-> "/run/a.pid"], [p \in Paths |-> NoPid])

\* logging.rs 19-22: config.logfile, expanded by strftime at the time `time`
HasPercent(logfile) == logfile = "/log/%d.log"
Expand(logfile, time) == <<logfile, IF HasPercent(logfile) THEN time ELSE 0>>
NoName == Expand("", 0)
LogNames == {Expand(l, t) : l \in LogFiles \ {""}, t \in 0..MaxTime}

\* no call of dprint yet, and what a call does that returns at once
NoCall == [level |-> "<none>", logfile |-> "",
           truncate |-> FALSE, open_ok |-> TRUE]
NoWrite == [fname |-> NoName, truncate |-> FALSE, wrote |-> FALSE]
Nothing == [removed |-> FALSE, appended |-> 0, stderr |-> 0]

\* logging.rs 26-27: the process has not logged yet, `files` are the log
\* files that exist
BeforeDprint(files) ==
    /\ log_files = files
    /\ old_log_file = NoName
    /\ log_call = NoCall
    /\ log_out = Nothing
    /\ prev_write = NoWrite

\* the log files are not looked at
InitDprint == BeforeDprint([n \in LogNames |-> NoFile])

\* jobs.rs 137-139 / 273-279: a worker of the kind `kind` is about to run
\* `job`
BeforeSub(kind, job) ==
    sub = [kind |-> kind, job |-> job, pc |-> "connect", sent |-> <<>>,
           err_log |-> "", status_text |-> "", err_text |-> "",
           sqlstate |-> "", rows |-> {}]

\* the statements of the workers are not looked at
InitSub == BeforeSub("async", NoJob)

\* the loop is entered with an asynchronous and a one-shot job queued, or
\* with one recurring job
Init ==
    /\ InitLoop
    /\ InitConfig(NoOverride)
    /\ InitStart
    /\ InitDprint
    /\ InitSub
    /\ \/ /\ all_async_jobs = InitAsync
          /\ all_scheduled_jobs = InitScheduled(NULL)
       \/ /\ all_async_jobs = EmptyMap
          /\ all_scheduled_jobs = InitScheduled(1)

\* the loop is entered with both queues empty
InitIdle ==
    /\ InitLoop
    /\ \E override \in Overrides : InitConfig(override)
    /\ InitStart
    /\ InitDprint
    /\ InitSub
    /\ all_async_jobs = EmptyMap
    /\ all_scheduled_jobs = EmptyMap

\* --------------------------------------------------------------- event loop
\* main.rs 103-136: reap, reload, drop of the session
\* config.rs 49-131, 207-272: the keys for which one read of the lines
\* `file` logs 'Setting <key> from configuration file to ...'
SettingLines(config, file) ==
    (IF file.pidfile \notin {NoLine, config.pidfile}
        THEN {"pidfile"} ELSE {})
    \cup (IF file.job_queue_processes > 0
            THEN {"job_queue_processes"} ELSE {})
    \cup (IF file.database /= NoLine THEN {"database"} ELSE {})
    \cup (IF ReadPort(0, file.port) /= 0 THEN {"port"} ELSE {})
    \cup (IF ReadDebug(config.debug, file.debug) /= config.debug
            THEN {"debug"} ELSE {})

\* config.rs 79-206, 248-272: the keys for which one read of the lines
\* `file` logs 'Invalid <key> value ... Ignoring.'
ErrorLines(file) ==
    (IF file.job_queue_processes = 0 THEN {"job_queue_processes"} ELSE {})
    \cup (IF parse(file.port, 0, 65535) = [ok |-> TRUE, v |-> 0]
            THEN {"port"} ELSE {})

\* config.rs 11-280: read_config on the lines `file`; a file that cannot be
\* opened (nodie = true) reads as a file without lines
read_config(config, file) ==
    [pidfile |-> IF file.pidfile /= NoLine THEN file.pidfile
                 ELSE config.pidfile,
     job_queue_processes |->
         ReadProcs(config.job_queue_processes, file.job_queue_processes),
     database |-> IF file.database /= NoLine THEN file.database
                  ELSE config.database,
     port |-> ReadPort(config.port, file.port),
     debug |-> ReadDebug(config.debug, file.debug),
     lines |-> SettingLines(config, file),
     errors |-> ErrorLines(file)]

\* main.rs 120: config.pidfile after a rename that failed
RestoredPidfile_keepsNew(old_pidfile, new_pidfile) == new_pidfile
RestoredPidfile(old_pidfile, new_pidfile) == old_pidfile

\* main.rs 107-130: the configuration is read again, the pid file follows
\* config.pidfile
ReloadConfig ==
    \/ /\ Fault
       /\ UNCHANGED <<job_queue_processes, dbinfo, debug, config_pidfile,
                      pidfile>>
    \/ \E val \in FileProcs :
          LET old == LoopConfig
              new == read_config(old, [pidfile |-> conffile.pidfile,
                                       job_queue_processes |-> val,
                                       database |-> conffile.database,
                                       port |-> NoLine,
                                       debug |-> conffile.debug])
          IN /\ job_queue_processes' = new.job_queue_processes
             /\ dbinfo' = new.database
             /\ debug' = new.debug
             /\ IF new.pidfile = old.pidfile
                  THEN NoFault /\ UNCHANGED <<config_pidfile, pidfile>>
                  ELSE \/ /\ pidfile = old.pidfile
                          /\ NoFault
                          /\ pidfile' = new.pidfile
                          /\ config_pidfile' = new.pidfile
                       \/ /\ IF pidfile = old.pidfile THEN Fault ELSE NoFault
                          /\ config_pidfile' =
                                 RestoredPidfile(old.pidfile, new.pidfile)
                          /\ UNCHANGED pidfile

\* main.rs 105-132: the reload branch, the main session is invalidated
Reload_keepSession == ReloadConfig /\ UNCHANGED config_invalidated
Reload == ReloadConfig /\ config_invalidated' = TRUE

LoopBody ==
    /\ running_pids' = reap_children(running_pids)
    /\ workers' = Reaped
    /\ reload_flag' = FALSE
    /\ IF reload_flag
         THEN Reload
         ELSE /\ NoFault
              /\ UNCHANGED <<job_queue_processes, config_pidfile, pidfile,
                             dbinfo, debug, config_invalidated>>
    /\ dbh' = IF config_invalidated' THEN FALSE ELSE dbh
    /\ dbh_dbinfo' = IF dbh' THEN dbh_dbinfo ELSE NoDb
    /\ notifications' = IF dbh' THEN notifications ELSE {}
    /\ pc' = IF dbh' THEN "notifications" ELSE "connect"
    /\ claim_err' = {}
    /\ claimed_before' = Len(claims)
    /\ UNCHANGED <<terminate_flag, single, conffile, debug_override, rcvars,
                   startvars, unitvars, startup,
                   countvars, mapvars, timervars, now, dbvars, claims,
                   spawned, respawn, dirty>>

\* main.rs 102: the loop is left when terminate_flag is set
LoopExit ==
    /\ pc' = "drain"
    /\ UNCHANGED <<flagvars, confvars, sessvars, countvars, mapvars, timervars,
                   poolvars, envvars, dbvars, logvars, faults>>

\* main.rs 102-136: top of a tick
LoopTop_ignoreTerminate == pc = "top" /\ LoopBody
LoopTop == pc = "top" /\ IF terminate_flag THEN LoopExit ELSE LoopBody

\* main.rs 141-147: connect_db returned Err, the tick ends
ConnectError_keepStartup ==
    /\ config_invalidated' = TRUE
    /\ pc' = "top"
    /\ UNCHANGED <<dbh, dbh_dbinfo, startup>>
ConnectError ==
    /\ startup' = TRUE
    /\ config_invalidated' = TRUE
    /\ pc' = "top"
    /\ UNCHANGED <<dbh, dbh_dbinfo>>

\* main.rs 138-149 and db.rs connect_db: open the main session
LoopConnect ==
    /\ pc = "connect"
    /\ \E transport_ok \in BOOLEAN, count \in 1..2, in_recovery \in BOOLEAN :
         /\ IF transport_ok /\ count = 1 /\ ~in_recovery THEN NoFault ELSE Fault
         /\ IF ~transport_ok
              THEN ConnectError
              ELSE IF count > 1
                THEN /\ pc' = "died"
                     /\ UNCHANGED sessvars
                ELSE IF in_recovery
                  THEN ConnectError
                  ELSE /\ dbh' = TRUE
                       /\ dbh_dbinfo' = dbinfo
                       /\ pc' = "notifications"
                       /\ UNCHANGED <<startup, config_invalidated>>
    /\ UNCHANGED <<flagvars, confvars, countvars, mapvars, timervars, poolvars,
                   envvars, dbvars, logvars>>

\* position after the notification drain
AfterNotifications(a, s) ==
    IF a \/ startup THEN "get_async_jobs_1"
    ELSE IF s \/ startup THEN "get_scheduled_jobs"
    ELSE "after_claims"

\* main.rs 151-212: drain the notifications, force-poll upgrade
LoopNotifications_noForcePoll ==
    /\ pc = "notifications"
    /\ config_invalidated' = FALSE
    /\ notifications' = {}
    /\ LET a == "dbms_job_async_notify" \in notifications
           s == "dbms_job_scheduled_notify" \in notifications
       IN /\ async_count' = a
          /\ scheduled_count' = s
          /\ pc' = AfterNotifications(a, s)
    /\ UNCHANGED <<flagvars, confvars, dbh, dbh_dbinfo, startup, mapvars, timervars,
                   poolvars, now, dbvars, logvars, faults>>

LoopNotifications ==
    /\ pc = "notifications"
    /\ config_invalidated' = FALSE
    /\ notifications' = {}
    /\ LET a == \/ "dbms_job_async_notify" \in notifications
                \/ /\ ~startup
                   /\ now - previous_async_exec >= job_queue_interval
           s == \/ "dbms_job_scheduled_notify" \in notifications
                \/ /\ ~startup
                   /\ now - previous_scheduled_exec >= job_queue_interval
       IN /\ async_count' = a
          /\ scheduled_count' = s
          /\ pc' = AfterNotifications(a, s)
    /\ UNCHANGED <<flagvars, confvars, dbh, dbh_dbinfo, startup, mapvars, timervars,
                   poolvars, now, dbvars, logvars, faults>>

\* jobs.rs 48-63: get_async_jobs, first statement
LoopGetAsyncJobs1 ==
    /\ pc = "get_async_jobs_1"
    /\ \/ /\ StmtAsync1(1)
          /\ async_jobs' = JobsOf(all_async_jobs, "async", "async_1")
          /\ NoFault
          /\ UNCHANGED claim_err
       \/ /\ Fault
          /\ async_jobs' = EmptyMap
          /\ claim_err' = claim_err \cup {"async_1"}
          /\ UNCHANGED <<dbvars, claims>>
    /\ pc' = "get_async_jobs_2"
    /\ UNCHANGED <<flagvars, confvars, sessvars, countvars, scheduled_jobs,
                   keys, timervars, poolvars, envvars, claimed_before,
                   spawned, respawn, dirty>>

\* jobs.rs 65-86 and main.rs 218: second statement, return to the loop
LoopGetAsyncJobs2 ==
    /\ pc = "get_async_jobs_2"
    /\ \/ /\ StmtAsync2(1)
          /\ async_jobs' = MapInsertAll(async_jobs,
                 JobsOf(all_scheduled_jobs, "scheduled", "async_2"))
          /\ NoFault
          /\ UNCHANGED claim_err
       \/ /\ Fault
          /\ claim_err' = claim_err \cup {"async_2"}
          /\ UNCHANGED <<async_jobs, dbvars, claims>>
    /\ previous_async_exec' = now
    /\ pc' = IF scheduled_count \/ startup THEN "get_scheduled_jobs"
             ELSE "after_claims"
    /\ UNCHANGED <<flagvars, confvars, sessvars, countvars, scheduled_jobs,
                   keys, previous_scheduled_exec, poolvars, envvars,
                   claimed_before, spawned, respawn, dirty>>

\* jobs.rs 14-45 and main.rs 221-231: get_scheduled_jobs, restart on failure
LoopGetScheduledJobs ==
    /\ pc = "get_scheduled_jobs"
    /\ \/ /\ StmtScheduled(1)
          /\ scheduled_jobs' =
                 JobsOf(all_scheduled_jobs, "scheduled", "scheduled")
          /\ pc' = "after_claims"
          /\ NoFault
          /\ UNCHANGED <<claim_err, config_invalidated, startup>>
       \/ /\ Fault
          /\ scheduled_jobs' = EmptyMap
          /\ config_invalidated' = TRUE
          /\ startup' = TRUE
          /\ pc' = "top"
          /\ claim_err' = claim_err \cup {"scheduled"}
          /\ UNCHANGED <<dbvars, claims>>
    /\ previous_scheduled_exec' = now
    /\ UNCHANGED <<flagvars, confvars, dbh, dbh_dbinfo, countvars, async_jobs, keys,
                   previous_async_exec, poolvars, envvars, claimed_before,
                   spawned, respawn, dirty>>

\* main.rs 233-236: the flags are cleared, the scheduled keys are collected
LoopAfterClaims ==
    /\ pc = "after_claims"
    /\ config_invalidated' = FALSE
    /\ startup' = FALSE
    /\ async_count' = FALSE
    /\ scheduled_count' = FALSE
    /\ keys' = DOMAIN scheduled_jobs
    /\ pc' = "spawn_scheduled"
    /\ claim_err' = {}
    /\ UNCHANGED <<flagvars, confvars, dbh, dbh_dbinfo, scheduled_jobs, async_jobs,
                   timervars, poolvars, envvars, dbvars, claims,
                   claimed_before, spawned, respawn, dirty, faults>>

\* the pid a fork returns
NewPid == Min({p \in 1..(Cardinality(DOMAIN workers) + 1) : p \notin DOMAIN workers})

\* jobs.rs 111-134: spawn_job forks a child for the job, or fails to
spawn_job(kind, job) ==
    /\ spawned' = spawned \cup {job.cid}
    /\ respawn' = (respawn \/ job.cid \in spawned)
    /\ \/ /\ workers' = workers @@ (NewPid :> Forked(kind, job))
          /\ running_pids' = running_pids \cup {NewPid}
          /\ NoFault
       \/ /\ Fault
          /\ UNCHANGED poolvars

\* main.rs 238 / 258: the pool is full
PoolFull == Cardinality(running_pids) >= job_queue_processes

\* main.rs 239-248 / 259-268: sleep, then reap
Backpressure ==
    /\ running_pids' = reap_children(running_pids)
    /\ workers' = Reaped
    /\ UNCHANGED <<pc, mapvars, spawned, respawn, faults>>

\* main.rs 254 / 274: HashMap::clear after the loop over the keys
Cleared_kept(jobs) == jobs
Cleared(jobs) == EmptyMap

\* main.rs 236-254: one iteration of the loop over scheduled_keys
LoopSpawnScheduled ==
    /\ pc = "spawn_scheduled"
    /\ IF keys = {}
         THEN /\ scheduled_jobs' = Cleared(scheduled_jobs)
              /\ keys' = DOMAIN async_jobs
              /\ pc' = "spawn_async"
              /\ UNCHANGED <<async_jobs, poolvars, spawned, respawn, faults>>
         ELSE IF PoolFull
           THEN Backpressure
           ELSE \E jobid \in keys :
                /\ spawn_job("scheduled", scheduled_jobs[jobid])
                /\ keys' = keys \ {jobid}
                /\ UNCHANGED <<pc, scheduled_jobs, async_jobs>>
    /\ UNCHANGED <<flagvars, confvars, sessvars, countvars, timervars, envvars,
                   dbvars, claims, claim_err, claimed_before, dirty>>

\* main.rs 256-281: one iteration of the loop over async_keys, end of tick
LoopSpawnAsync ==
    /\ pc = "spawn_async"
    /\ IF keys = {}
         THEN /\ async_jobs' = Cleared(async_jobs)
              /\ pc' = IF single THEN "drain" ELSE "top"
              /\ UNCHANGED <<scheduled_jobs, keys, poolvars, spawned, respawn,
                             faults>>
         ELSE IF PoolFull
           THEN Backpressure
           ELSE \E jobid \in keys :
                /\ spawn_job("async", async_jobs[jobid])
                /\ keys' = keys \ {jobid}
                /\ UNCHANGED <<pc, scheduled_jobs, async_jobs>>
    /\ UNCHANGED <<flagvars, confvars, sessvars, countvars, timervars, envvars,
                   dbvars, claims, claim_err, claimed_before, dirty>>

\* main.rs 283 and process.rs 103-108: wait_all_children
LoopDrain_noWait ==
    /\ pc = "drain"
    /\ pc' = "remove_pidfile"
    /\ UNCHANGED <<flagvars, confvars, sessvars, countvars, mapvars, timervars,
                   poolvars, envvars, dbvars, logvars, faults>>

LoopDrain ==
    /\ pc = "drain"
    /\ IF running_pids = {}
         THEN /\ pc' = "remove_pidfile"
              /\ UNCHANGED <<running_pids, workers>>
         ELSE /\ running_pids' = reap_children(running_pids)
              /\ workers' = Reaped
              /\ UNCHANGED pc
    /\ UNCHANGED <<flagvars, confvars, sessvars, countvars, mapvars, timervars,
                   envvars, dbvars, logvars, faults>>

\* main.rs 284-294: remove the pid file (the removal can fail), stop
LoopRemovePidfile ==
    /\ pc = "remove_pidfile"
    /\ \/ /\ pidfile' = IF pidfile = config_pidfile THEN NoPath ELSE pidfile
          /\ NoFault
       \/ /\ pidfile = config_pidfile
          /\ Fault
          /\ UNCHANGED pidfile
    /\ pc' = "stopped"
    /\ UNCHANGED <<flagvars, single, job_queue_processes, config_pidfile,
                   dbinfo, conffile, debug, debug_override, rcvars, startvars,
                   unitvars,
                   sessvars, countvars,
                   mapvars, timervars, poolvars, envvars, dbvars, logvars>>

\* ------------------------------------------------------------------ workers
\* the steps before the DO block at which a worker can stop
Aborts(job) ==
    {"connect", "begin"}
       \cup (IF job.log_user /= NoUser THEN {"role"} ELSE {})
       \cup (IF job.schema_user /= NoUser THEN {"path"} ELSE {})

\* position of a worker after the transaction of its job has ended
AfterTransaction(kind, out) ==
    IF kind = "async" THEN "delete_job_1"
    ELSE IF out = "rollback" THEN "update_failure"
    ELSE "update_done"

\* jobs.rs 138-249 / 274-353: session, SET ROLE, BEGIN, SET LOCAL, DO block,
\* COMMIT or ROLLBACK; none of these statements touches the job tables
WorkerRun(w) ==
    /\ workers[w].pc = "run"
    /\ LET job == workers[w].job
           kind == workers[w].kind
       IN \/ \E out \in Aborts(job) :
               /\ Fault
               /\ workers' = [workers EXCEPT ![w] = Exited]
               /\ dirty' = (dirty \/ kind = "scheduled")
          \/ \E out \in {"commit", "commit_err"} :
               /\ IF out = "commit" THEN NoFault ELSE Fault
               /\ workers' = [workers EXCEPT
                      ![w].pc = AfterTransaction(kind, out), ![w].outcome = out]
               /\ dirty' = (dirty \/ (kind = "scheduled" /\ out /= "commit"))
          \/ \E out \in {"rollback", "rollback_err"} :
               /\ IF out = "rollback" THEN NoFault ELSE Fault
               /\ workers' = [workers EXCEPT
                      ![w].pc = AfterTransaction(kind, out),
                      ![w].outcome = out,
                      ![w].status_text = "ERROR",
                      ![w].err_text = "boom",
                      ![w].sqlstate = job.what]
               /\ dirty' = (dirty \/ kind = "scheduled")
    /\ UNCHANGED <<loopvars, envvars, dbvars, claims, claim_err,
                   claimed_before, spawned, respawn>>

\* jobs.rs 342-345: UPDATE ... SET this_date = NULL, failures = failures+1
UpdateFailure(t, jobid) ==
    [j \in DOMAIN t |-> IF j = jobid
        THEN [t[j] EXCEPT !.this_date = NULL, !.failures = t[j].failures + 1]
        ELSE t[j]]

\* jobs.rs 356-359 without the increment of instance
UpdateDone_noInstance(t, jobid) ==
    [j \in DOMAIN t |-> IF j = jobid
        THEN [t[j] EXCEPT !.this_date = NULL, !.last_date = now, !.failures = 0]
        ELSE t[j]]

\* jobs.rs 356-359: UPDATE ... SET this_date = NULL, last_date, failures = 0,
\* instance = instance+1
UpdateDone(t, jobid) ==
    [j \in DOMAIN t |-> IF j = jobid
        THEN [t[j] EXCEPT !.this_date = NULL, !.last_date = now,
                          !.failures = 0, !.instance = t[j].instance + 1]
        ELSE t[j]]

\* jobs.rs 341-346: after a ROLLBACK that succeeded
WorkerUpdateFailure(w) ==
    /\ workers[w].pc = "update_failure"
    /\ all_scheduled_jobs' = UpdateFailure(all_scheduled_jobs, workers[w].job.job)
    /\ workers' = [workers EXCEPT ![w].pc = "update_done"]
    /\ UNCHANGED <<loopvars, envvars, all_async_jobs, history, logvars, faults>>

\* jobs.rs 355-359: issued on every path that reached the DO block
WorkerUpdateDone(w) ==
    /\ workers[w].pc = "update_done"
    /\ all_scheduled_jobs' = UpdateDone(all_scheduled_jobs, workers[w].job.job)
    /\ workers' = [workers EXCEPT ![w].pc = "store"]
    /\ UNCHANGED <<loopvars, envvars, all_async_jobs, history, logvars, faults>>

\* jobs.rs 95-101: DELETE FROM all_async_jobs WHERE job = $1 RETURNING job;
\* an error counts as "no row"
WorkerDeleteJob1(w) ==
    /\ workers[w].pc = "delete_job_1"
    /\ LET jobid == workers[w].job.job
       IN \/ /\ jobid \in DOMAIN all_async_jobs
             /\ all_async_jobs' = Remove(all_async_jobs, {jobid})
             /\ workers' = [workers EXCEPT ![w].pc = "store"]
             /\ NoFault
          \/ /\ jobid \notin DOMAIN all_async_jobs
             /\ workers' = [workers EXCEPT ![w].pc = "delete_job_2"]
             /\ NoFault
             /\ UNCHANGED all_async_jobs
          \/ /\ Fault
             /\ workers' = [workers EXCEPT ![w].pc = "delete_job_2",
                                           ![w].del_err = TRUE]
             /\ UNCHANGED all_async_jobs
    /\ UNCHANGED <<loopvars, envvars, all_scheduled_jobs, history, logvars>>

\* jobs.rs 102-107: DELETE FROM all_scheduled_jobs WHERE job = $1
WorkerDeleteJob2(w) ==
    /\ workers[w].pc = "delete_job_2"
    /\ all_scheduled_jobs' = Remove(all_scheduled_jobs, {workers[w].job.job})
    /\ workers' = [workers EXCEPT ![w].pc = "store"]
    /\ UNCHANGED <<loopvars, envvars, all_async_jobs, history, logvars, faults>>

\* jobs.rs 400: details.sqlstate.parse::<i64>().ok()
ParseI64(s) == IF s = "23505" THEN 23505 ELSE NULL

\* jobs.rs 401-407
AdditionalInfo_noSqlstate(sqlstate, err_text) == err_text
AdditionalInfo(sqlstate, err_text) ==
    IF sqlstate = "" THEN err_text
    ELSE IF err_text = "" THEN "sqlstate=" \o sqlstate
    ELSE "sqlstate=" \o sqlstate \o ", " \o err_text

\* the row store_job_execution_details inserts; cid names the claim
HistoryRow(wk) ==
    [cid |-> wk.job.cid,
     owner |-> IF wk.job.log_user = NoUser THEN "" ELSE wk.job.log_user,
     job_name |-> wk.job.job,
     status |-> wk.status_text,
     error |-> ParseI64(wk.sqlstate),
     additional_info |-> AdditionalInfo(wk.sqlstate, wk.err_text)]

\* a worker that exits without calling store_job_execution_details
WorkerStore_noInsert(w) ==
    /\ workers[w].pc = "store"
    /\ workers' = [workers EXCEPT ![w] = Exited]
    /\ UNCHANGED <<loopvars, envvars, dbvars, logvars, faults>>

\* jobs.rs 254-270 / 361-371 and 386-439: the history INSERT, then exit
WorkerStore(w) ==
    /\ workers[w].pc = "store"
    /\ \/ /\ history' = history (+) SetToBag({HistoryRow(workers[w])})
          /\ NoFault
       \/ /\ Fault
          /\ UNCHANGED history
    /\ workers' = [workers EXCEPT ![w] = Exited]
    /\ UNCHANGED <<loopvars, envvars, all_async_jobs, all_scheduled_jobs,
                   logvars>>

\* -------------------------------------------------------------- environment
Alive == pc \notin {"stopped", "died"}

Tick ==
    /\ now < MaxTime
    /\ now' = now + 1
    /\ UNCHANGED <<loopvars, workers, notifications, dbvars, logvars, faults>>

\* NOTIFY on a channel the main session listens on.  The loop reads the
\* queue only in its drain, so a notification is delivered right before it.
Notify(ch) ==
    /\ pc = "notifications" /\ dbh
    /\ ch \notin notifications
    /\ notifications' = notifications \cup {ch}
    /\ UNCHANGED <<loopvars, workers, now, dbvars, logvars, faults>>

\* main.rs 87-88: SIGINT and SIGTERM set terminate_flag.  The handler only
\* stores the flag and the loop reads it only in its `while` condition, so a
\* signal is delivered right before that read.
SigTerm ==
    /\ pc = "top" /\ ~terminate_flag
    /\ terminate_flag' = TRUE
    /\ UNCHANGED <<pc, reload_flag, confvars, sessvars, countvars, mapvars,
                   timervars, poolvars, envvars, dbvars, logvars, faults>>

\* main.rs 87-88: the same signal, delivered while a tick is under way
SigTermMidTick ==
    /\ Alive /\ pc /= "top" /\ ~terminate_flag
    /\ terminate_flag' = TRUE
    /\ UNCHANGED <<pc, reload_flag, confvars, sessvars, countvars, mapvars,
                   timervars, poolvars, envvars, dbvars, logvars, faults>>

\* main.rs 89: SIGHUP sets reload_flag, read only by the swap at main.rs 105
SigHup ==
    /\ pc = "top" /\ ~reload_flag
    /\ reload_flag' = TRUE
    /\ UNCHANGED <<pc, terminate_flag, confvars, sessvars, countvars, mapvars,
                   timervars, poolvars, envvars, dbvars, logvars, faults>>

\* a second event loop issuing the claim statements on the same database
OtherLoopClaim ==
    /\ \/ StmtAsync1(2)
       \/ StmtAsync2(2)
       \/ StmtScheduled(2)
    /\ claims' /= claims
    /\ UNCHANGED <<loopvars, workers, envvars, claim_err, claimed_before,
                   spawned, respawn, dirty, faults>>

\* --------------------------------------------------------------------- Next
Loop ==
    \/ LoopTop
    \/ LoopConnect
    \/ LoopNotifications
    \/ LoopGetAsyncJobs1
    \/ LoopGetAsyncJobs2
    \/ LoopGetScheduledJobs
    \/ LoopAfterClaims
    \/ LoopSpawnScheduled
    \/ LoopSpawnAsync
    \/ LoopDrain
    \/ LoopRemovePidfile

Worker(w) ==
    \/ WorkerRun(w)
    \/ WorkerUpdateFailure(w)
    \/ WorkerUpdateDone(w)
    \/ WorkerDeleteJob1(w)
    \/ WorkerDeleteJob2(w)
    \/ WorkerStore(w)

Next ==
    \/ Loop
    \/ \E w \in DOMAIN workers : Worker(w)
    \/ Tick
    \/ \E ch \in {"dbms_job_async_notify", "dbms_job_scheduled_notify"} : Notify(ch)
    \/ SigTerm
    \/ SigHup
    \/ OtherLoopClaim

Spec == Init /\ [][Next]_vars

\* the operator edits the pidfile or database line of the configuration file
EditConfig ==
    /\ Alive
    /\ conffile' \in ConfFiles \ {conffile}
    /\ UNCHANGED <<pc, flagvars, single, job_queue_processes, config_pidfile,
                   pidfile, dbinfo, debug, debug_override, rcvars, startvars,
                   unitvars,
                   sessvars, countvars, mapvars,
                   timervars, poolvars, envvars, dbvars, logvars, faults>>

\* the idle scheduler under reloads of an edited configuration file
NextReload ==
    \/ Loop
    \/ Tick
    \/ \E ch \in {"dbms_job_async_notify", "dbms_job_scheduled_notify"} :
          Notify(ch)
    \/ SigTerm
    \/ SigHup
    \/ EditConfig

SpecReload == InitIdle /\ [][NextReload]_vars

\* the idle scheduler whose loop never stops of itself: every sleep of the
\* loop is finite (main.rs 143, 185, 227, 279) and so is every statement
NextRetry ==
    \/ Loop
    \/ Tick
    \/ \E ch \in {"dbms_job_async_notify", "dbms_job_scheduled_notify"} :
          Notify(ch)
    \/ SigTerm
    \/ SigHup

SpecRetry == InitIdle /\ [][NextRetry]_vars /\ WF_vars(Loop)

\* the scheduler with its workers and with reloads that change the cap;
\* the loop never stops of itself and every running worker finishes
NextPool ==
    \/ Loop
    \/ \E w \in DOMAIN workers : Worker(w)
    \/ Tick
    \/ SigHup

SpecPool ==
    /\ Init
    /\ [][NextPool]_vars
    /\ WF_vars(Loop)
    /\ WF_vars(\E w \in DOMAIN workers : Worker(w))

\* the files that differ from `file` in the line of at most one key
Edited(file) ==
    {[file EXCEPT !.pidfile = val] : val \in Paths \cup {NoLine}}
    \cup {[file EXCEPT !.job_queue_processes = val] :
              val \in FileProcs \cup {NoValue}}
    \cup {[file EXCEPT !.database = val] : val \in DbNames \cup {NoLine}}
    \cup {[file EXCEPT !.port = val] : val \in PortLines}
    \cup {[file EXCEPT !.debug = val] : val \in DebugLines}

\* config.rs 11-280: one call of read_config, on the file of the call
\* before with at most one line edited
ReadConfigCall ==
    /\ \E file \in Edited(rc_file) :
          LET new == read_config(rc_config, file)
          IN /\ rc_config' = [pidfile |-> new.pidfile,
                              job_queue_processes |-> new.job_queue_processes,
                              database |-> new.database,
                              port |-> new.port,
                              debug |-> new.debug]
             /\ rc_file' = file
             /\ rc_lines' = new.lines
             /\ rc_errors' = new.errors
    /\ UNCHANGED <<pc, flagvars, single, job_queue_processes, filevars,
                   startvars, unitvars, sessvars, countvars, mapvars,
                   timervars, poolvars,
                   envvars, dbvars, logvars, faults>>

NextReadConfig == ReadConfigCall

\* read_config called again and again, from any values of Config and DbInfo
InitReadConfig ==
    /\ InitLoop
    /\ all_async_jobs = EmptyMap
    /\ all_scheduled_jobs = EmptyMap
    /\ InitStart
    /\ InitDprint
    /\ InitSub
    /\ debug_override = NoOverride
    /\ debug = FALSE
    /\ \E config \in Configs : BeforeReadConfig(config)

SpecReadConfig == InitReadConfig /\ [][NextReadConfig]_vars

\* ------------------------------------------- start and exit of two daemons
\* The two daemons run main() against the same database.  Of their loops
\* only the main session and the way out are kept: the claims and the
\* workers of a tick are the subject of Spec.
schedvars == <<pc, flagvars, single, job_queue_processes, filevars, rcvars,
               unitvars,
               sessvars, countvars, mapvars, timervars, poolvars, envvars,
               dbvars, logvars>>

\* daemon d moves to position p
Goto(d, p) == d_pc' = [d_pc EXCEPT ![d] = p]

\* main.rs 71-76: an existing pid file ends the start
DaemonCheckPidfile_ignoresFile(d) ==
    /\ d_pc[d] = "start"
    /\ Goto(d, IF single THEN "write_pidfile" ELSE "daemonize")
    /\ NoFault
    /\ UNCHANGED <<d_pidfile, fs, backends, schedvars>>

DaemonCheckPidfile(d) ==
    /\ d_pc[d] = "start"
    /\ Goto(d, IF fs[d_pidfile[d]] /= NoPid THEN "died_pidfile"
               ELSE IF single THEN "write_pidfile" ELSE "daemonize")
    /\ NoFault
    /\ UNCHANGED <<d_pidfile, fs, backends, schedvars>>

\* main.rs 78-80 and process.rs 19-43: daemonize, fork or setsid can fail
DaemonDaemonize(d) ==
    /\ d_pc[d] = "daemonize"
    /\ \/ NoFault /\ Goto(d, "write_pidfile")
       \/ Fault /\ Goto(d, "died_start")
    /\ UNCHANGED <<d_pidfile, fs, backends, schedvars>>

\* main.rs 82 and process.rs 46-51: File::create truncates what is there
DaemonWritePidfile(d) ==
    /\ d_pc[d] = "write_pidfile"
    /\ \/ /\ NoFault
          /\ fs' = [fs EXCEPT ![d_pidfile[d]] = d]
          /\ Goto(d, "top")
       \/ /\ Fault
          /\ Goto(d, "died_start")
          /\ UNCHANGED fs
    /\ UNCHANGED <<d_pidfile, backends, schedvars>>

\* main.rs 102-149: the loop is left on the terminate flag, otherwise the
\* tick goes on with the session it has or opens one
DaemonTop(d) ==
    /\ d_pc[d] = "top"
    /\ \/ Goto(d, "remove_pidfile")
       \/ Goto(d, IF backends[d] = "listening" THEN "tick" ELSE "connect")
    /\ NoFault
    /\ UNCHANGED <<d_pidfile, fs, backends, schedvars>>

\* db.rs 8: Client::connect
DaemonConnect(d) ==
    /\ d_pc[d] = "connect"
    /\ \/ /\ NoFault
          /\ backends' = [backends EXCEPT ![d] = "connected"]
          /\ Goto(d, "set_name")
       \/ /\ Fault
          /\ Goto(d, "top")
          /\ UNCHANGED backends
    /\ UNCHANGED <<d_pidfile, fs, schedvars>>

\* db.rs 9-11: SET application_name TO 'pg_dbms_job:main'
DaemonSetName(d) ==
    /\ d_pc[d] = "set_name"
    /\ backends' = [backends EXCEPT ![d] = "named"]
    /\ Goto(d, "count")
    /\ NoFault
    /\ UNCHANGED <<d_pidfile, fs, schedvars>>

\* db.rs 13-18: the sessions of the database named 'pg_dbms_job:main'
MainSessions == {e \in Daemons : backends[e] \in {"named", "listening"}}

\* db.rs 13-31: the count query; die on a second main session, Err when
\* the database is in recovery
DaemonCount_noCheck(d) ==
    /\ d_pc[d] = "count"
    /\ NoFault
    /\ Goto(d, "listen")
    /\ UNCHANGED <<d_pidfile, fs, backends, schedvars>>

DaemonCount(d) ==
    /\ d_pc[d] = "count"
    /\ IF Cardinality(MainSessions) > 1
         THEN /\ NoFault
              /\ Goto(d, "died_duplicate")
              /\ backends' = [backends EXCEPT ![d] = "none"]
         ELSE \/ /\ NoFault
                 /\ Goto(d, "listen")
                 /\ UNCHANGED backends
              \/ /\ Fault
                 /\ Goto(d, "top")
                 /\ backends' = [backends EXCEPT ![d] = "none"]
    /\ UNCHANGED <<d_pidfile, fs, schedvars>>

\* db.rs 33-40: LISTEN on both channels, the session is handed to the loop
DaemonListen(d) ==
    /\ d_pc[d] = "listen"
    /\ backends' = [backends EXCEPT ![d] = "listening"]
    /\ Goto(d, "tick")
    /\ NoFault
    /\ UNCHANGED <<d_pidfile, fs, schedvars>>

\* main.rs 151-281: the rest of a tick; a failed claim or a reload has the
\* session dropped (main.rs 134-136), single mode leaves the loop
DaemonTick(d) ==
    /\ d_pc[d] = "tick"
    /\ Goto(d, IF single THEN "remove_pidfile" ELSE "top")
    /\ \/ UNCHANGED backends
       \/ /\ ~single
          /\ backends' = [backends EXCEPT ![d] = "none"]
    /\ NoFault
    /\ UNCHANGED <<d_pidfile, fs, schedvars>>

\* main.rs 283-294: the pid file at config.pidfile is removed if it exists
\* (the removal can fail), the process ends and with it its session
DaemonRemovePidfile(d) ==
    /\ d_pc[d] = "remove_pidfile"
    /\ \/ /\ NoFault
          /\ fs' = [fs EXCEPT ![d_pidfile[d]] = NoPid]
       \/ /\ fs[d_pidfile[d]] /= NoPid
          /\ Fault
          /\ UNCHANGED fs
    /\ backends' = [backends EXCEPT ![d] = "none"]
    /\ Goto(d, "stopped")
    /\ UNCHANGED <<d_pidfile, schedvars>>

Daemon(d) ==
    \/ DaemonCheckPidfile(d)
    \/ DaemonDaemonize(d)
    \/ DaemonWritePidfile(d)
    \/ DaemonTop(d)
    \/ DaemonConnect(d)
    \/ DaemonSetName(d)
    \/ DaemonCount(d)
    \/ DaemonListen(d)
    \/ DaemonTick(d)
    \/ DaemonRemovePidfile(d)

NextStartup == \E d \in Daemons : Daemon(d)

\* two daemons started with any pid file paths, over any stale pid files
InitStartup ==
    /\ InitLoop
    /\ InitConfig(NoOverride)
    /\ all_async_jobs = EmptyMap
    /\ all_scheduled_jobs = EmptyMap
    /\ \E pidfiles \in [Daemons -> Paths], files \in [Paths -> {NoPid, StalePid}] :
          BeforeStart(pidfiles, files)
    /\ InitDprint
    /\ InitSub

SpecStartup == InitStartup /\ [][NextStartup]_vars

\* ------------------------------------------------- main() from its first line
\* main.rs 54 and config.rs 12-17: the first read of the configuration file,
\* die when it cannot be read
DaemonReadConfig_nodie(d) ==
    /\ d_pc[d] = "main"
    /\ \/ NoFault
       \/ Fault
    /\ Goto(d, "args")
    /\ UNCHANGED <<d_pidfile, fs, backends, schedvars>>

DaemonReadConfig(d) ==
    /\ d_pc[d] = "main"
    /\ \/ NoFault /\ Goto(d, "args")
       \/ Fault /\ Goto(d, "died_config")
    /\ UNCHANGED <<d_pidfile, fs, backends, schedvars>>

\* main.rs 60-69: with -k, -m or -r the process only sends a signal
DaemonArgs(d) ==
    /\ d_pc[d] = "args"
    /\ \/ Goto(d, "signal_handling")
       \/ Goto(d, "start")
    /\ NoFault
    /\ UNCHANGED <<d_pidfile, fs, backends, schedvars>>

\* positions at which a process has ended
DiedPcs == {"died_config", "died_pidfile", "died_start", "died_signal",
            "died_duplicate"}
EndPcs == DiedPcs \cup {"stopped", "signalled", "signal_failed", "killed"}

\* util.rs 4-7, process.rs 68, main.rs 295: the exit code at a position, -1
\* while the process runs or when a signal has ended it
ExitCode(p) ==
    IF p \in DiedPcs THEN 1
    ELSE IF p \in {"stopped", "signalled", "signal_failed"} THEN 0
    ELSE -1

\* process.rs 79-86: the processes named pg_dbms_job that ps can list, the
\* one that asks among them
PsPids == {e \in Daemons : d_pc[e] \notin EndPcs}

\* process.rs 55: the pid of the pid file, or else one that ps lists, or
\* none; `ps` is what the ps fallback returns
ResolvedPid(d, ps) ==
    IF fs[d_pidfile[d]] /= NoPid THEN fs[d_pidfile[d]] ELSE ps

\* process.rs 54-69: signal_handling; kill fails on a pid that is gone
DaemonSignal(d) ==
    /\ d_pc[d] = "signal_handling"
    /\ \E ps \in PsPids \cup {NoPid} :
          LET pid == ResolvedPid(d, ps)
          IN Goto(d, IF pid = NoPid THEN "died_signal"
                     ELSE IF pid = d THEN "killed"
                     ELSE IF pid \in PsPids THEN "signalled"
                     ELSE "signal_failed")
    /\ NoFault
    /\ UNCHANGED <<d_pidfile, fs, backends, schedvars>>

NextMain ==
    \E d \in Daemons :
        \/ DaemonReadConfig(d)
        \/ DaemonArgs(d)
        \/ DaemonSignal(d)
        \/ Daemon(d)

\* main.rs 35-52: two processes are started with any pid file paths, over
\* any stale pid files
InitMain ==
    /\ InitLoop
    /\ InitConfig(NoOverride)
    /\ all_async_jobs = EmptyMap
    /\ all_scheduled_jobs = EmptyMap
    /\ d_pc = [d \in Daemons |-> "main"]
    /\ backends = [d \in Daemons |-> "none"]
    /\ d_pidfile \in [Daemons -> Paths]
    /\ fs \in [Paths -> {NoPid, StalePid}]
    /\ InitDprint
    /\ InitSub

SpecMain == InitMain /\ [][NextMain]_vars

\* the scheduler with the terminate signal delivered at any moment
NextMidTick ==
    \/ Next
    \/ SigTermMidTick

SpecMidTick == Init /\ [][NextMidTick]_vars

\* the loop is entered with an asynchronous job queued and a recurring job
\* of the same job id scheduled
InitSharedId ==
    /\ InitLoop
    /\ InitConfig(NoOverride)
    /\ InitStart
    /\ InitDprint
    /\ InitSub
    /\ all_async_jobs = InitAsync
    /\ all_scheduled_jobs = InitScheduled(1)

SpecSharedId == InitSharedId /\ [][Next]_vars

\* the same scheduler, whose loop never stops of itself and whose running
\* workers all finish
SpecShutdown ==
    /\ Init
    /\ [][NextMidTick]_vars
    /\ WF_vars(Loop)
    /\ WF_vars(\E w \in DOMAIN workers : Worker(w))

\* --------------------------------------------------------------- logging.rs
\* logging.rs 15: the level is compared without regard to case
IsDebug(level) == level \in {"DEBUG", "debug"}

\* logging.rs 15-17: the call returns before it does anything
Suppressed_never(level, dbg) == FALSE
Suppressed(level, dbg) == IsDebug(level) /\ ~dbg

\* logging.rs 29: the file about to be written is removed first
Rotated_everyWrite(old_name, fname, exists) == exists
Rotated(old_name, fname, exists) ==
    old_name /= NoName /\ old_name /= fname /\ exists

\* logging.rs 14-48: one call of dprint; `open_ok` tells whether the log file
\* can be opened for appending
Dprint ==
    \E level \in Levels, logfile \in LogFiles,
       truncate \in BOOLEAN, open_ok \in BOOLEAN :
        LET fname == Expand(logfile, now)
            exists == fname /= NoName /\ log_files[fname] /= NoFile
            remove == truncate /\ Rotated(old_log_file, fname, exists)
            kept == IF exists /\ ~remove THEN log_files[fname] ELSE 0
        IN /\ log_call' = [level |-> level,
                           logfile |-> logfile, truncate |-> truncate,
                           open_ok |-> open_ok]
           /\ IF Suppressed(level, debug)
                 THEN /\ log_out' = Nothing
                      /\ UNCHANGED <<log_files, old_log_file, prev_write>>
                 ELSE /\ old_log_file' = IF truncate THEN fname
                                         ELSE old_log_file
                      /\ prev_write' = [fname |-> fname,
                                        truncate |-> truncate, wrote |-> TRUE]
                      /\ IF fname /= NoName /\ open_ok
                            THEN /\ kept < MaxLines
                                 /\ log_files' =
                                        [log_files EXCEPT ![fname] = kept + 1]
                                 /\ log_out' = [removed |-> remove,
                                                appended |-> 1, stderr |-> 0]
                            ELSE IF fname /= NoName
                            THEN /\ log_files' =
                                        IF remove
                                        THEN [log_files EXCEPT
                                                 ![fname] = NoFile]
                                        ELSE log_files
                                 /\ log_out' = [removed |-> remove,
                                                appended |-> 0, stderr |-> 2]
                            ELSE /\ UNCHANGED log_files
                                 /\ log_out' = [removed |-> FALSE,
                                                appended |-> 0, stderr |-> 1]
           /\ UNCHANGED <<pc, flagvars, single, job_queue_processes, filevars,
                          rcvars, startvars, sessvars, countvars, mapvars,
                          timervars, poolvars, envvars, dbvars, logvars,
                          faults, sub>>

\* a process that logs while the clock advances
NextLog ==
    \/ Dprint
    \/ Tick

\* the process starts with log files of an earlier rotation on the disk and
\* with config.debug as the command line sets it
InitLog ==
    /\ InitLoop
    /\ \E override \in Overrides \ {NoOverride} : InitConfig(override)
    /\ InitStart
    /\ all_async_jobs = EmptyMap
    /\ all_scheduled_jobs = EmptyMap
    /\ \E files \in [LogNames -> {NoFile, 1}] : BeforeDprint(files)
    /\ InitSub

SpecLog == InitLog /\ [][NextLog]_vars

\* ------------------------------------------- a worker, statement by statement
\* jobs.rs 95-107, 137-371: what the worker sends to its session at each
\* position
Statement ==
    [connect |-> "connect",
     role |-> "SET ROLE",
     begin |-> "BEGIN",
     path |-> "SET LOCAL search_path",
     do |-> "DO",
     rollback |-> "ROLLBACK",
     commit |-> "COMMIT",
     update_failure |-> "UPDATE all_scheduled_jobs",
     update_done |-> "UPDATE all_scheduled_jobs",
     delete_job_1 |-> "DELETE all_async_jobs",
     delete_job_2 |-> "DELETE all_scheduled_jobs",
     store |-> "INSERT all_scheduler_job_run_details"]

\* jobs.rs 153, 174, 187, 202, 229, 236, 246: the ERROR line logged when the
\* statement at a position fails
ErrorLog ==
    [connect |-> "connect",
     role |-> "can not change role",
     begin |-> "can not start a transaction",
     path |-> "can not change the search_path",
     do |-> "job failure",
     rollback |-> "can not rollback a transaction",
     commit |-> "can not commit a transaction"]

\* a worker that takes BEGIN for the statement after the session is opened
AfterConnect_noRole(job) == "begin"

\* jobs.rs 168-182 / 289-300: the statement after the session is opened
AfterConnect(job) == IF job.log_user /= NoUser THEN "role" ELSE "begin"

\* jobs.rs 192-219 / 309-325: the statement after BEGIN
AfterBegin(job) == IF job.schema_user /= NoUser THEN "path" ELSE "do"

\* jobs.rs 137-371: the position after the statement at `at` returned; `ok`
\* is FALSE when it failed (for the first DELETE: failed or returned no row)
SubGoto(kind, job, at, ok) ==
    CASE at = "connect" -> IF ok THEN AfterConnect(job) ELSE "exit"
      [] at = "role" -> IF ok THEN "begin" ELSE "exit"
      [] at = "begin" -> IF ok THEN AfterBegin(job) ELSE "exit"
      [] at = "path" -> IF ok THEN "do" ELSE "exit"
      [] at = "do" -> IF ok THEN "commit" ELSE "rollback"
      [] at = "rollback" -> IF kind = "async" THEN "delete_job_1"
                            ELSE IF ok THEN "update_failure"
                            ELSE "update_done"
      [] at = "commit" -> IF kind = "async" THEN "delete_job_1"
                          ELSE "update_done"
      [] at = "update_failure" -> "update_done"
      [] at = "update_done" -> "store"
      [] at = "delete_job_1" -> IF ok THEN "store" ELSE "delete_job_2"
      [] at = "delete_job_2" -> "store"
      [] at = "store" -> "exit"

\* jobs.rs 223-225 / 327-329: the DO block failed with the SQLSTATE `code`,
\* a code of "" is err.code() = None
Failed(wk, code) ==
    [wk EXCEPT !.err_text = "boom", !.sqlstate = code,
               !.status_text = "ERROR"]

\* jobs.rs 137-371, 386-439: the worker sends its next statement
SubStatement ==
    /\ sub.pc /= "exit"
    /\ \E ok \in BOOLEAN, code \in {sub.job.what, ""} :
          LET wk == IF sub.pc = "do" /\ ~ok THEN Failed(sub, code) ELSE sub
          IN sub' = [wk EXCEPT
                        !.pc = SubGoto(sub.kind, sub.job, sub.pc, ok),
                        !.sent = Append(sub.sent, Statement[sub.pc]),
                        !.err_log = IF ~ok /\ sub.pc \in DOMAIN ErrorLog
                                    THEN ErrorLog[sub.pc] ELSE sub.err_log,
                        !.rows = IF ok /\ sub.pc = "store"
                                 THEN {HistoryRow(wk)} ELSE sub.rows]
    /\ UNCHANGED <<pc, flagvars, single, job_queue_processes, filevars,
                   rcvars, dprintvars, startvars, sessvars, countvars,
                   mapvars, timervars, poolvars, envvars, dbvars, logvars,
                   faults>>

NextSub == SubStatement

\* the jobs a worker is forked for
SubJobs ==
    {[NoJob EXCEPT !.job = 1, !.what = what, !.log_user = log_user,
                   !.schema_user = schema_user, !.cid = 1] :
        what \in {"23505", "P0001"}, log_user \in {NoUser, "alice"},
        schema_user \in {NoUser, "app"}}

InitSubprocess ==
    /\ InitLoop
    /\ InitConfig(NoOverride)
    /\ InitStart
    /\ InitDprint
    /\ all_async_jobs = EmptyMap
    /\ all_scheduled_jobs = EmptyMap
    /\ \E kind \in {"async", "scheduled"}, job \in SubJobs :
          BeforeSub(kind, job)

SpecSub == InitSubprocess /\ [][NextSub]_vars

\* ------------------------------------------------------------------- claims
\* number of history rows that carry claim c in the bag h
RowCount(h, c) ==
    LET S == {r \in BagToSet(h) : r.cid = c}
    IN BagCardinality([r \in S |-> h[r]])

\* worker w takes the step that ends its process
Exits(w) ==
    /\ w \in DOMAIN workers /\ w \in DOMAIN workers'
    /\ workers[w].pc /= "exit" /\ workers'[w].pc = "exit"

\* worker w issues the UPDATE of jobs.rs 355-359, its last statement on the row
DoneStep(w) ==
    /\ w \in DOMAIN workers /\ w \in DOMAIN workers'
    /\ workers[w].pc = "update_done" /\ workers'[w].pc = "store"

\* worker w returns from delete_job
DeletedStep(w) ==
    /\ w \in DOMAIN workers /\ w \in DOMAIN workers'
    /\ workers[w].pc \in {"delete_job_1", "delete_job_2"}
    /\ workers'[w].pc = "store"

\* the claims this event loop made
OwnClaims == {i \in DOMAIN claims : claims[i].loop = 1}

\* the claims of scheduled row j
ClaimsOf(j) == {i \in DOMAIN claims : claims[i].tbl = "scheduled" /\ claims[i].job = j}

\* C1: the number of live workers (the size of running_pids) never exceeds
\* the current job_queue_processes, also across a reload that changes it.
C1_LiveWithinCap == Cardinality(running_pids) <= job_queue_processes

\* C2 as stated: when the worker of a claimed job ends, exactly one history
\* row exists for the claim, whatever step of the worker failed.
C2_ExactlyOneRow ==
    [][\A w \in DOMAIN workers :
          Exits(w) => RowCount(history', workers[w].job.cid) = 1]_vars

\* C2 as amended: no claim ever has more than one history row and only
\* claims handed to spawn_job have one; a worker that reached the DO block
\* ends with exactly one row unless its INSERT failed, and a worker that
\* stopped before the DO block ends with none.
C2_OneRowPerStore ==
    [][/\ \A c \in DOMAIN claims' :
             /\ RowCount(history', c) <= 1
             /\ RowCount(history', c) = 1 => c \in spawned'
       /\ \A w \in DOMAIN workers :
             Exits(w) => RowCount(history', workers[w].job.cid) =
                 IF workers[w].pc = "store" /\ faults' = faults THEN 1 ELSE 0]_vars

\* one spawned claim has its row, another one ended without a row
C2_Witness ==
    \E c, d \in spawned :
       /\ RowCount(history, c) = 1
       /\ RowCount(history, d) = 0
       /\ \A w \in DOMAIN workers : workers[w].job.cid /= d

\* C3: a claim statement never returns a row whose this_date is non-NULL,
\* no returned row is handed to spawn_job twice, and a row returned to the
\* other event loop is never spawned by this one.
C3_AtMostOnce ==
    /\ \A i \in DOMAIN claims : claims[i].pre = NULL
    /\ ~respawn
    /\ spawned \subseteq OwnClaims

\* both event loops claimed the same row, and this loop spawned its claim
C3_Witness ==
    \E i \in spawned, j \in DOMAIN claims :
       /\ claims[j].loop = 2
       /\ claims[i].tbl = claims[j].tbl /\ claims[i].job = claims[j].job

\* C4: when the DO block of a scheduled recurring job failed, the worker's
\* statements leave the row with this_date NULL, failures one higher than
\* before the run, and next_date as set by the claim.
C4_FailureCounted ==
    [][\A w \in DOMAIN workers :
          (DoneStep(w) /\ workers[w].kind = "scheduled"
             /\ workers[w].outcome = "rollback")
          => LET r == all_scheduled_jobs'[workers[w].job.job]
                 c == claims[workers[w].job.cid]
             IN /\ r.this_date = NULL
                /\ r.failures = c.fail0 + 1
                /\ r.next_date = c.at + r.interval]_vars

\* C5: when the DO block of a scheduled recurring job succeeded, the worker's
\* statements leave the row with this_date NULL, failures 0, last_date the
\* completion time, next_date as set by the claim and instance two higher
\* than before the claim.
C5_SuccessRecorded ==
    [][\A w \in DOMAIN workers :
          (DoneStep(w) /\ workers[w].kind = "scheduled"
             /\ workers[w].outcome = "commit")
          => LET r == all_scheduled_jobs'[workers[w].job.job]
                 c == claims[workers[w].job.cid]
             IN /\ r.this_date = NULL
                /\ r.failures = 0
                /\ r.last_date = now
                /\ r.next_date = c.at + r.interval
                /\ r.instance = c.inst0 + 2]_vars

\* the recurring row j is at rest after only successful executions
AllSucceeded(j) ==
    /\ all_scheduled_jobs[j].interval /= NULL
    /\ all_scheduled_jobs[j].this_date = NULL
    /\ ~dirty

\* next_date of row j was advanced once by each of its claims
AdvancedPerClaim(j) ==
    LET r == all_scheduled_jobs[j]
        N == Cardinality(ClaimsOf(j))
    IN /\ \A i \in ClaimsOf(j) : claims[i].at + r.interval <= r.next_date
       /\ N = 0 => r.next_date = InitScheduled(1)[j].next_date
       /\ N > 0 => \E i \in ClaimsOf(j) : r.next_date = claims[i].at + r.interval
       /\ \A i, k \in ClaimsOf(j) : i /= k => claims[i].at /= claims[k].at

\* C6 as stated: after N successful executions of a recurring job and no
\* failure, next_date was advanced N times, failures is 0 and instance is
\* its initial value plus N.
C6_InstancePlusN ==
    \A j \in DOMAIN all_scheduled_jobs :
       AllSucceeded(j) =>
          LET r == all_scheduled_jobs[j]
              N == Cardinality(ClaimsOf(j))
          IN /\ AdvancedPerClaim(j)
             /\ N > 0 => r.failures = 0
             /\ r.instance = InitScheduled(1)[j].instance + N

\* C6 as amended: after N successful executions of a recurring job and no
\* failure, next_date was advanced N times, failures is 0 and instance is
\* its initial value plus 2 * N (one increment by the claim, one by the
\* worker).
C6_InstancePlus2N ==
    \A j \in DOMAIN all_scheduled_jobs :
       AllSucceeded(j) =>
          LET r == all_scheduled_jobs[j]
              N == Cardinality(ClaimsOf(j))
          IN /\ AdvancedPerClaim(j)
             /\ N > 0 => r.failures = 0
             /\ r.instance = InitScheduled(1)[j].instance + 2 * N

\* a recurring job was executed twice, both times with success
C6_Witness ==
    \E j \in DOMAIN all_scheduled_jobs :
       /\ AllSucceeded(j)
       /\ Cardinality(ClaimsOf(j)) = 2
       /\ all_scheduled_jobs[j].instance = 4

\* C7: a worker of the async path whose DO block failed deletes nothing:
\* none of its steps changes all_async_jobs or all_scheduled_jobs.
C7_FailureDeletesNothing ==
    [][\A w \in DOMAIN workers :
          (w \in DOMAIN workers' /\ workers'[w] /= workers[w]
             /\ workers[w].kind = "async" /\ workers[w].status_text = "ERROR")
          => /\ all_async_jobs' = all_async_jobs
             /\ all_scheduled_jobs' = all_scheduled_jobs]_vars

\* C8: when the DO block of an async-path job succeeded and was committed,
\* then after delete_job (no statement of which failed) the claimed row is
\* gone from the table it was claimed from.
C8_ClaimedRowDeleted ==
    [][\A w \in DOMAIN workers :
          (DeletedStep(w) /\ workers[w].outcome = "commit"
             /\ ~workers'[w].del_err)
          => IF workers[w].job.src = "async"
               THEN workers[w].job.job \notin DOMAIN all_async_jobs'
               ELSE workers[w].job.job \notin DOMAIN all_scheduled_jobs']_vars

\* C9: when a claim statement failed, the claim operation has returned an
\* empty map and the session is marked invalidated.
C9_FailedClaimInvalidates ==
    /\ (pc /= "get_async_jobs_2" /\ claim_err \cap {"async_1", "async_2"} /= {})
          => async_jobs = EmptyMap /\ config_invalidated
    /\ "scheduled" \in claim_err
          => scheduled_jobs = EmptyMap /\ config_invalidated

\* C10: a tick that finds terminate_flag set at the top of the loop leaves
\* the loop, and from then on this loop makes no claim, opens no session
\* and forks no worker: it drains, removes the pid file and stops.
C10_NoClaimAfterTerminate ==
    [][/\ (pc = "top" /\ terminate_flag /\ pc' /= pc) => pc' = "drain"
       /\ pc \in {"drain", "remove_pidfile", "stopped"}
            => /\ pc' \in {"drain", "remove_pidfile", "stopped"}
               /\ OwnClaims' = OwnClaims
               /\ dbh' = dbh
               /\ DOMAIN workers' \subseteq DOMAIN workers]_vars

\* the loop stopped on the terminate flag after it had claimed jobs
C10_Witness ==
    pc = "stopped" /\ terminate_flag /\ OwnClaims /= {} /\ ~single

\* C11: once the terminate flag is set no worker is spawned, also when the
\* signal arrives between the claim and the spawn loop or in backpressure.
C11_NoSpawnAfterTerminate ==
    [][terminate_flag => /\ running_pids' \subseteq running_pids
                         /\ spawned' = spawned]_vars

C13_CatchUpAfterReconnect ==
    [][(~dbh /\ dbh') =>
          /\ startup'
          /\ pc' = "notifications"
          /\ AfterNotifications(FALSE, FALSE)' = "get_async_jobs_1"]_vars

\* the force-poll timer of a queue is due
Due(previous_exec) == now - previous_exec >= job_queue_interval

\* C14: with an open session and no notification, a queue is claimed again
\* on the first tick at which the time since its last claim has reached
\* job_queue_interval, and not before: the drain sets the queue's count
\* exactly when its timer is due, and the tick then issues the claim.
C14_ForcePoll ==
    [][/\ (pc = "notifications" /\ pc' /= pc /\ notifications = {} /\ ~startup) =>
            /\ dbh
            /\ async_count' = Due(previous_async_exec)
            /\ scheduled_count' = Due(previous_scheduled_exec)
            /\ (pc' = "get_async_jobs_1") = Due(previous_async_exec)
            /\ (pc' = "get_scheduled_jobs") =
                   (~Due(previous_async_exec) /\ Due(previous_scheduled_exec))
       /\ (pc = "get_async_jobs_1" /\ pc' /= pc) =>
            /\ pc' = "get_async_jobs_2"
            /\ scheduled_count' = scheduled_count /\ startup' = startup
       /\ (pc = "get_async_jobs_2" /\ pc' /= pc) =>
            /\ previous_async_exec' = now
            /\ (pc' = "get_scheduled_jobs") = (scheduled_count \/ startup)
       /\ (pc = "get_scheduled_jobs" /\ pc' /= pc) =>
            previous_scheduled_exec' = now]_vars

C14_Witness ==
    /\ pc = "get_scheduled_jobs" /\ ~startup /\ dbh
    /\ Due(previous_scheduled_exec)
    /\ previous_async_exec = now
    /\ \E j \in DOMAIN all_scheduled_jobs : ScheduledWhere(all_scheduled_jobs[j])

\* the step at the top of a tick that observes the reload flag
ReloadStep == pc = "top" /\ reload_flag /\ pc' /= pc /\ pc' /= "drain"

\* positions of the loop at which the main session is used
SessionPcs == {"notifications", "get_async_jobs_1", "get_async_jobs_2",
               "get_scheduled_jobs"}

\* C15: a tick that observes the reload flag re-reads the configuration
\* before any database activity, closes the main session that was open and
\* never uses it again; every claim from then on runs on a session opened
\* after the reload with the reloaded DbInfo.
C15_ReloadReconnects ==
    [][/\ ReloadStep =>
            /\ ~dbh' /\ dbh_dbinfo' = NoDb
            /\ pc' = "connect"
            /\ UNCHANGED <<dbvars, claims>>
       /\ dbh' => dbh_dbinfo' = dbinfo'
       /\ pc' \in SessionPcs => dbh']_vars

C15_Witness ==
    /\ pc = "get_scheduled_jobs"
    /\ dbh /\ dbh_dbinfo = "db2" /\ conffile.database = "db2"

\* C19: after any sequence of reloads config.pidfile names the path at
\* which the pid file resides: a rename that succeeds moves the file from
\* the old path to the new one, a rename that fails leaves config.pidfile
\* at the old path.
C19_PidfileTracksConfig ==
    [][/\ pc' /= "stopped" => pidfile' = config_pidfile'
       /\ pidfile' \in {config_pidfile', NoPath}
       /\ config_pidfile' /= config_pidfile =>
            /\ ReloadStep
            /\ pidfile = config_pidfile
            /\ config_pidfile' = conffile.pidfile
       /\ pidfile' /= pidfile =>
            \/ config_pidfile' /= config_pidfile
            \/ pc = "remove_pidfile" /\ pidfile' = NoPath]_vars

C19_Witness ==
    /\ config_pidfile = "/run/b.pid" /\ pidfile = "/run/b.pid"
    /\ faults > 0 /\ conffile.pidfile = "/run/a.pid" /\ ~reload_flag
    /\ pc = "connect"

\* every key has a line in `file` and its value is the one `config` holds
SameValues(file, config) ==
    /\ file.pidfile = config.pidfile
    /\ file.job_queue_processes = config.job_queue_processes
    /\ file.database = config.database
    /\ parse(file.port, 0, 65535) = [ok |-> TRUE, v |-> config.port]
    /\ file.debug = (IF config.debug THEN "1" ELSE "0")

\* C20: reading a file whose values all equal the current Config and DbInfo
\* leaves them unchanged and logs no 'Setting <key> ...' line.
C20_ReloadIdempotent ==
    [][SameValues(rc_file', rc_config) => /\ rc_config' = rc_config
                                          /\ rc_lines' = {}]_vars

\* daemons whose main session passed the count check
Validated == {d \in Daemons : d_pc[d] = "listen" \/ backends[d] = "listening"}

\* C16: of two daemons on one database at most one ever has a main session
\* that passed the check and listens, in any interleaving of their SET
\* application_name and count steps; a daemon that counts more than one
\* main session exits and never issues LISTEN.
C16_AtMostOneMain ==
    [][/\ Cardinality(Validated') <= 1
       /\ \A d \in Daemons :
            /\ (d_pc[d] = "count" /\ Cardinality(MainSessions) > 1
                    /\ d_pc'[d] /= d_pc[d])
                 => d_pc'[d] = "died_duplicate"
            /\ d_pc[d] = "died_duplicate"
                 => d_pc'[d] = "died_duplicate" /\ backends'[d] = "none"]_vars

C16_Witness ==
    \E d, e \in Daemons :
        /\ d_pc[d] = "died_duplicate"
        /\ backends[e] = "listening"

\* C17: a daemon started against a database that already has a running
\* daemon exits on 'another pg_dbms_job process is running on this
\* database!' without having created a pid file, whichever pid file path
\* it is configured with: at that exit no pid file holds its pid.
C17_DuplicateLeavesNoPidfile ==
    \A d, e \in Daemons :
        (d_pc[d] = "died_duplicate" /\ backends[e] = "listening")
            => \A p \in Paths : fs[p] /= d

\* positions of a daemon inside its loop
DaemonLoopPcs == {"top", "connect", "set_name", "count", "listen", "tick"}

\* daemon d takes the step that leaves position p
Leaves(d, p) == d_pc[d] = p /\ d_pc'[d] /= p

\* start and entry of the loop, first two parts of C18
PidfileAtStart(d) ==
    /\ (Leaves(d, "start") /\ fs[d_pidfile[d]] /= NoPid) =>
          /\ d_pc'[d] = "died_pidfile"
          /\ UNCHANGED <<fs, backends>>
    /\ d_pc[d] \in {"died_pidfile", "died_start"} =>
          /\ d_pc'[d] = d_pc[d]
          /\ backends'[d] = "none"
          /\ \A p \in Paths : fs'[p] = d => fs[p] = d
    /\ (d_pc[d] \notin DaemonLoopPcs /\ d_pc'[d] \in DaemonLoopPcs) =>
          /\ d_pc[d] = "write_pidfile"
          /\ fs'[d_pidfile[d]] = d

\* C18: a daemon that finds its pid file at startup exits without
\* daemonizing, writing a pid file or opening a session; otherwise it
\* writes its pid before it enters the loop; on every graceful exit the
\* pid file is removed.
C18_PidfileLifecycle ==
    [][\A d \in Daemons :
         /\ PidfileAtStart(d)
         /\ Leaves(d, "remove_pidfile") =>
               /\ d_pc'[d] = "stopped"
               /\ fs'[d_pidfile[d]] = NoPid]_vars

\* C18 as the code has it: on a graceful exit the pid file is gone unless
\* its removal failed.
C18_PidfileRemovedUnlessFailed ==
    [][\A d \in Daemons :
         /\ PidfileAtStart(d)
         /\ Leaves(d, "remove_pidfile") =>
               /\ d_pc'[d] = "stopped"
               /\ \/ fs'[d_pidfile[d]] = NoPid
                  \/ faults' = faults + 1 /\ fs' = fs]_vars

C18_Witness ==
    \E d, e \in Daemons :
        /\ d_pc[d] = "stopped" /\ fs[d_pidfile[d]] = NoPid
        /\ d_pc[e] = "died_pidfile" /\ fs[d_pidfile[e]] = StalePid

\* a port line whose value is not a port: unparsable or outside 1..65535
InvalidPort(val) ==
    /\ val /= NoLine
    /\ \/ val \notin DOMAIN NumberOf
       \/ NumberOf[val] < 1
       \/ NumberOf[val] > 65535

\* C21: a value of a numeric key that fails validation leaves the prior
\* value unchanged and has an ERROR line logged; job_queue_processes >= 1
\* and port in 1..65535 hold after every load.
C21_InvalidRejectedWithError ==
    [][/\ InvalidPort(rc_file'.port) =>
            /\ rc_config'.port = rc_config.port
            /\ "port" \in rc_errors'
       /\ rc_file'.job_queue_processes = 0 =>
            /\ rc_config'.job_queue_processes = rc_config.job_queue_processes
            /\ "job_queue_processes" \in rc_errors'
       /\ rc_config'.job_queue_processes >= 1
       /\ rc_config'.port \in 1..65535]_vars

\* C22: a daemon started with -d / --debug (or --no-debug) keeps that value
\* of config.debug for the whole run, through any sequence of reloads and
\* whatever the debug line of the file says.
C22_DebugOverrideKept ==
    debug_override /= NoOverride => debug = (TRUE \in debug_override)

\* the step is a call of dprint that is let through
Written == now' = now /\ ~(IsDebug(log_call'.level) /\ ~debug)

\* the step is a call of dprint with level DEBUG while config.debug is false
Quiet == now' = now /\ IsDebug(log_call'.level) /\ ~debug

\* C23 as stated: a DEBUG call writes nothing (no file is created, no line
\* is appended, nothing is printed to stderr) while config.debug is false;
\* a call with any other level emits exactly one line, to the log file or to
\* standard error.
C23_ExactlyOneLine ==
    [][/\ Quiet => log_files' = log_files /\ log_out' = Nothing
       /\ now' = now /\ ~IsDebug(log_call'.level)
             => log_out'.appended + log_out'.stderr = 1]_vars

\* C23 amended: a DEBUG call writes nothing while config.debug is false; a
\* call that is let through emits its line exactly once, appended to the log
\* file or printed to standard error, and when the log file cannot be opened
\* the line on standard error follows one more line that names the file.
C23_OneLineOrOpenError ==
    [][/\ Quiet => log_files' = log_files /\ log_out' = Nothing
       /\ Written =>
            LET call == log_call'
                fname == Expand(call.logfile, now)
            IN /\ fname /= NoName /\ call.open_ok
                     => /\ log_out'.appended = 1 /\ log_out'.stderr = 0
                        /\ log_files'[fname] >= 1
               /\ fname /= NoName /\ ~call.open_ok
                     => log_out'.appended = 0 /\ log_out'.stderr = 2
               /\ fname = NoName
                     => /\ log_out'.appended = 0 /\ log_out'.stderr = 1
                        /\ log_files' = log_files]_vars

\* a DEBUG call was dropped after a line had been appended to a log file
C23_Witness ==
    /\ IsDebug(log_call.level) /\ ~debug
    /\ log_out = Nothing
    /\ prev_write.wrote
    /\ \E n \in LogNames : log_files[n] = MaxLines

\* the step is a write with log_truncate_on_rotation true that is the first
\* write of the process or follows a write with log_truncate_on_rotation true
TruncatingWrite ==
    /\ Written
    /\ log_call'.truncate
    /\ prev_write.wrote => prev_write.truncate

\* the file the step writes to exists before the step
Exists == LET fname == Expand(log_call'.logfile, now)
          IN fname /= NoName /\ log_files[fname] /= NoFile

\* C24 as stated: with log_truncate_on_rotation true the logger removes an
\* existing log file exactly on a write whose expanded filename differs from
\* that of the previous write, and before it appends; the very first write
\* and a write to the same expanded filename never remove the file.
C24_TruncateOnRotation ==
    [][TruncatingWrite =>
         LET fname == Expand(log_call'.logfile, now)
         IN /\ log_out'.removed <=> /\ prev_write.wrote
                                    /\ prev_write.fname /= fname
                                    /\ Exists
            /\ log_out'.removed /\ log_out'.appended = 1
                  => log_files'[fname] = 1]_vars

\* C24 amended: the file is removed exactly on a write whose expanded
\* filename differs from that of the previous write when that previous
\* write went to a log file; after a write to standard error (config.logfile
\* empty) the next write counts as the first one and removes nothing.
C24_TruncateOnRotationOfFile ==
    [][TruncatingWrite =>
         LET fname == Expand(log_call'.logfile, now)
         IN /\ log_out'.removed <=> /\ prev_write.wrote
                                    /\ prev_write.fname /= NoName
                                    /\ prev_write.fname /= fname
                                    /\ Exists
            /\ log_out'.removed /\ log_out'.appended = 1
                  => log_files'[fname] = 1
            /\ ~log_out'.removed /\ log_out'.appended = 1 /\ Exists
                  => log_files'[fname] = log_files[fname] + 1]_vars

\* the clock moved the expanded filename on to a file of an earlier
\* rotation, which was removed and now holds the one new line
C24_Witness ==
    /\ log_call.truncate
    /\ HasPercent(log_call.logfile)
    /\ now = 1
    /\ log_out.removed
    /\ log_out.appended = 1
    /\ log_files[Expand(log_call.logfile, now)] = 1
    /\ log_files[Expand(log_call.logfile, 0)] = MaxLines

\* the positions of `statement` in what the worker has sent
Sent(statement) == {i \in 1..Len(sub.sent) : sub.sent[i] = statement}

\* C25: a worker whose job has a log_user sends SET ROLE before BEGIN; when
\* SET ROLE fails the worker logs an ERROR and stops, and it has sent no
\* BEGIN, DO block, COMMIT, ROLLBACK, UPDATE or DELETE of the job tables and
\* no history INSERT.
C25_SetRoleBeforeBegin ==
    /\ sub.job.log_user /= NoUser
          => \A b \in Sent("BEGIN") : \E r \in Sent("SET ROLE") : r < b
    /\ sub.job.log_user = NoUser => Sent("SET ROLE") = {}
    /\ sub.err_log = "can not change role"
          => /\ sub.pc = "exit"
             /\ sub.sent = <<"connect", "SET ROLE">>

\* SET ROLE failed and the worker has stopped
C25_Witness ==
    /\ sub.job.log_user /= NoUser
    /\ sub.err_log = "can not change role"
    /\ sub.pc = "exit"

\* the DO block of the worker failed: ROLLBACK is sent exactly then
DoFailed == Sent("ROLLBACK") /= {}

\* the SQLSTATE codes that parse as an integer
Numeric == {"23505"}

\* C26 as stated: a history row has status 'ERROR' exactly when the DO block
\* failed and empty status exactly when it succeeded; its error column is
\* non-NULL exactly when the captured SQLSTATE parses as an integer; on
\* failure additional_info holds 'sqlstate=<code>' and the error text.
C26_HistoryRow ==
    \A row \in sub.rows :
        /\ row.status = "ERROR" <=> DoFailed
        /\ row.status = "" <=> ~DoFailed
        /\ row.error /= NULL <=> sub.sqlstate \in Numeric
        /\ DoFailed => row.additional_info =
                           "sqlstate=" \o sub.job.what \o ", " \o sub.err_text

\* C26 amended: on failure additional_info holds the error text, after
\* 'sqlstate=<code>, ' when the error carried a SQLSTATE; without a SQLSTATE
\* it holds the error text alone and the error column is NULL.
C26_HistoryRowOfCode ==
    \A row \in sub.rows :
        /\ row.status = "ERROR" <=> DoFailed
        /\ row.status = "" <=> ~DoFailed
        /\ row.error /= NULL <=> sub.sqlstate \in Numeric
        /\ row.error /= NULL => row.error = 23505
        /\ DoFailed /\ sub.sqlstate /= ""
              => /\ sub.sqlstate = sub.job.what
                 /\ row.additional_info =
                       "sqlstate=" \o sub.sqlstate \o ", " \o sub.err_text
        /\ DoFailed /\ sub.sqlstate = ""
              => row.additional_info = sub.err_text /\ sub.err_text /= ""
        /\ ~DoFailed => row.additional_info = "" /\ row.error = NULL

\* a row was written for a job that failed with an alphanumeric SQLSTATE
C26_Witness ==
    /\ DoFailed
    /\ sub.sqlstate = "P0001"
    /\ \E row \in sub.rows : row.status = "ERROR" /\ row.error = NULL

\* the tick in which opening the main session failed has ended
ConnectFailed == pc = "top" /\ ~dbh /\ startup /\ config_invalidated

\* both claims of a tick that began with startup true have returned
BothClaimed == pc = "after_claims" /\ dbh /\ startup

\* C27: when opening the main session fails (transport error or server in
\* recovery) the tick issues no claim and spawns no worker and startup is
\* true; every following tick tries to connect again; once the database
\* stays reachable a session is established and both queues are claimed,
\* unless the daemon is told to stop or finds another instance first.
C27_RetryUntilConnected ==
    /\ [][pc = "connect" /\ pc' = "top"
            => /\ ConnectFailed'
               /\ claims' = claims /\ spawned' = spawned
               /\ workers' = workers /\ running_pids' = running_pids
               /\ dbvars' = dbvars]_vars
    /\ [][pc = "top" /\ ~dbh /\ ~terminate_flag /\ pc' /= pc
            => pc' = "connect"]_vars
    /\ [][pc = "notifications" /\ startup /\ pc' /= pc
            => pc' = "get_async_jobs_1"]_vars
    /\ [][pc = "get_async_jobs_2" /\ startup /\ pc' /= pc
            => pc' = "get_scheduled_jobs"]_vars
    /\ ConnectFailed ~> (BothClaimed \/ terminate_flag \/ pc = "died")

\* the second attempt to connect is under way after the first one failed
C27_Witness ==
    /\ pc = "connect"
    /\ startup /\ config_invalidated /\ ~dbh
    /\ faults > 0
    /\ claims = <<>>

\* the positions of the two spawn loops and the map a loop iterates over
SpawnPcs == {"spawn_scheduled", "spawn_async"}
Iterated == IF pc = "spawn_scheduled" THEN scheduled_jobs ELSE async_jobs

\* a spawn loop stands before a claimed job with the worker set at the cap
Parked == pc \in SpawnPcs /\ keys /= {} /\ PoolFull

\* a job leaves the claimed keys inside a spawn loop
Handed ==
    /\ \E jobid \in keys : /\ keys' = keys \ {jobid}
                           /\ Iterated[jobid].cid \in spawned'
    /\ Cardinality(running_pids) < job_queue_processes
    /\ Cardinality(running_pids') <= job_queue_processes

\* the claims a run can hold
ClaimIds == 1..6

\* C28: with the worker set at job_queue_processes the loop reaps and waits
\* instead of spawning; a job leaves the claimed keys only by being handed
\* to spawn_job, with room under the cap; and, provided every running worker
\* finishes, every job this loop claimed is handed to spawn_job.
C28_BackpressureProgress ==
    /\ [][Parked => /\ spawned' = spawned /\ keys' = keys /\ pc' = pc
                    /\ running_pids' \subseteq running_pids]_vars
    /\ [][(pc \in SpawnPcs) /\ pc' = pc /\ keys' /= keys => Handed]_vars
    /\ \A i \in ClaimIds : (i \in OwnClaims) ~> (i \in spawned)

\* C29: in single-shot mode the loop runs one iteration: once the tick has
\* begun the loop never comes back to its top (no second connection attempt,
\* no second claim of either queue), whatever the connection attempt and
\* the claims return; it goes on to drain its workers and exits.
C29_SingleIteration ==
    [][single /\ pc /= "top" => pc' /= "top"]_vars

\* what the step of daemon d leaves alone besides its own position
NothingElse(d) ==
    /\ fs' = fs
    /\ backends' = backends
    /\ \A e \in Daemons \ {d} : d_pc'[e] = d_pc[e]

\* C30: each fatal condition at startup ends the process with exit code 1
\* and the loop is not entered or continued: the configuration file cannot
\* be read at the first load, the pid file exists, the pid file cannot be
\* created, no pid can be resolved in signal-send mode (and then no signal
\* is sent), a second instance is detected.
C30_FatalAtStartup ==
    [][\A d \in Daemons :
         /\ Leaves(d, "main") /\ faults' /= faults
               => d_pc'[d] = "died_config" /\ NothingElse(d)
         /\ Leaves(d, "start") /\ fs[d_pidfile[d]] /= NoPid
               => d_pc'[d] = "died_pidfile" /\ NothingElse(d)
         /\ Leaves(d, "write_pidfile") /\ fs'[d_pidfile[d]] /= d
               => d_pc'[d] = "died_start" /\ NothingElse(d)
         /\ Leaves(d, "signal_handling")
               => /\ d_pc'[d] = "died_signal"
                     => fs[d_pidfile[d]] = NoPid /\ NothingElse(d)
                  /\ d_pc'[d] /= "died_signal"
                     => \/ fs[d_pidfile[d]] /= NoPid
                        \/ d_pc'[d] \in {"signalled", "killed"}
         /\ Leaves(d, "count") /\ Cardinality(MainSessions) > 1
               => d_pc'[d] = "died_duplicate"
         /\ d_pc'[d] \in DiedPcs
               => /\ ExitCode(d_pc'[d]) = 1
                  /\ backends'[d] = "none"
         /\ d_pc[d] \in DiedPcs => d_pc'[d] = d_pc[d]]_vars

\* one process died for want of a pid to signal, the other on its pid file
C30_Witness ==
    \E d, e \in Daemons :
        /\ d_pc[d] = "died_signal"
        /\ d_pc[e] \in {"died_pidfile", "died_config"}

\* the jobs the step hands to spawn_job
SpawnedJobs ==
    IF pc \in SpawnPcs /\ pc' = pc THEN {Iterated[j] : j \in keys \ keys'}
    ELSE {}

\* C31: a job handed to spawn_job in a tick was returned for that job id by
\* a claim statement this loop issued earlier in the same tick; no tick
\* spawns a job from a map filled by the claim of an earlier tick.
C31_ClaimBeforeSpawn ==
    [][\A job \in SpawnedJobs :
          /\ job.cid \in OwnClaims
          /\ job.cid > claimed_before
          /\ claims[job.cid].job = job.job]_vars

\* a job claimed in a tick was handed to spawn_job in that tick, after an
\* earlier tick of this loop had claimed
C31_Witness ==
    /\ pc \in SpawnPcs
    /\ \E c \in spawned, b \in OwnClaims :
          b <= claimed_before /\ c > claimed_before

\* the step is the reap at the top of a tick
ReapAtTop == pc = "top" /\ pc' \in {"connect", "notifications"}

\* the step inserts the pid of one new child and nothing else
Inserts ==
    /\ SpawnedJobs /= {}
    /\ \E p \in DOMAIN workers' \ DOMAIN workers :
          /\ running_pids' = running_pids \cup {p}
          /\ workers'[p].pc = "run"

\* C32: reap removes from the worker set exactly the handles whose worker
\* has finished and does not wait: the handle of a running worker stays, a
\* finished worker's handle is gone after the next reap, and the worker set
\* changes only by the insert of spawn_job and by the removal of reap.
C32_ReapExact ==
    [][/\ running_pids' /= running_pids
             => Inserts \/ running_pids' = running_pids \ Finished
       /\ ReapAtTop => /\ running_pids' = running_pids \ Finished
                       /\ DOMAIN workers' = DOMAIN workers \ Finished
       /\ \A w \in running_pids \ running_pids' :
             workers[w].pc = "exit"]_vars

\* a worker that stored its row and exited was reaped while another worker,
\* still running, kept its handle
C32_Witness ==
    /\ \E w \in running_pids : workers[w].pc /= "exit"
    /\ \A w \in DOMAIN workers : workers[w].pc /= "exit"
    /\ \E c \in spawned :
          /\ RowCount(history, c) = 1
          /\ \A w \in DOMAIN workers : workers[w].job.cid /= c

\* the claims whose Job one of the two maps holds
Held ==
    {scheduled_jobs[j].cid : j \in DOMAIN scheduled_jobs}
       \cup {async_jobs[j].cid : j \in DOMAIN async_jobs}

\* claim c has a worker
HasWorker(c) == \E w \in DOMAIN workers : workers[w].job.cid = c

\* C33: every job a claim statement of this loop returned is handed to
\* spawn_job and gets a worker: the returned row enters the loop's map, it
\* leaves the map only after it was handed to spawn_job (not when the tick
\* is restarted, not when another row has the same job id), the call of
\* spawn_job gives it a worker, and, provided the loop keeps running, every
\* claim of this loop has a worker at some time.
C33_DispatchComplete ==
    /\ [][\A c \in OwnClaims' \ OwnClaims : c \in Held']_vars
    /\ [][\A c \in Held \ Held' : c \in spawned']_vars
    /\ [][\A job \in SpawnedJobs :
            \E p \in DOMAIN workers' \ DOMAIN workers :
               workers'[p].job = job]_vars
    /\ \A i \in ClaimIds : (i \in OwnClaims) ~> HasWorker(i)

\* the workers of the scheduled path that have not exited
Running(kind) ==
    {w \in DOMAIN workers : workers[w].kind = kind /\ workers[w].pc /= "exit"}

\* C34: at any time at most one worker exists for a scheduled job id: the
\* loop does not claim and spawn a scheduled job again while a worker of
\* that job has not exited.
C34_OneWorkerPerJob ==
    \A v, w \in Running("scheduled") :
       workers[v].job.job = workers[w].job.job => v = w

\* the recurring row j is claimed
ClaimedRow(j) ==
    /\ j \in DOMAIN all_scheduled_jobs
    /\ all_scheduled_jobs[j].interval /= NULL
    /\ all_scheduled_jobs[j].this_date /= NULL

\* the loop still holds the Job of row j, or a worker of it has not exited
InHand(j) ==
    \/ j \in DOMAIN scheduled_jobs
    \/ \E w \in Running("scheduled") : workers[w].job.job = j

\* C35: no claim of a recurring job stays: a claimed recurring row is in
\* the hands of the loop or of a worker that has not exited, and, provided
\* the loop and the workers keep running, its this_date is NULL again at
\* some later time, whatever way the worker ends.
C35_NoStuckClaim ==
    /\ [](\A j \in DOMAIN all_scheduled_jobs : ClaimedRow(j) => InHand(j))
    /\ \A j \in {1} : ClaimedRow(j) ~> ~ClaimedRow(j)

\* the DO block of worker w succeeded and its COMMIT failed
Uncommitted(w) == workers[w].outcome = "commit_err"

\* C36: a run whose COMMIT failed after a successful DO block is not
\* recorded as a success: its worker inserts no history row with an empty
\* status, does not set failures to 0 and last_date on the scheduled row,
\* and does not delete the row of the async path.
C36_SuccessOnlyIfCommitted ==
    [][\A w \in DOMAIN workers : Uncommitted(w) =>
          /\ Exits(w) /\ history' /= history
                => HistoryRow(workers[w]).status /= ""
          /\ DoneStep(w)
                => LET r == all_scheduled_jobs'[workers[w].job.job]
                   IN ~(r.failures = 0 /\ r.last_date = now)
          /\ DeletedStep(w)
                => /\ all_async_jobs' = all_async_jobs
                   /\ all_scheduled_jobs' = all_scheduled_jobs]_vars

\* C37: after a terminate signal, provided every running worker finishes,
\* the daemon leaves the loop, waits until its worker set is empty, removes
\* its pid file and stops, whatever the loop was doing when the signal came.
C37_ShutdownLiveness ==
    terminate_flag ~> (pc = "stopped" /\ running_pids = {} /\ pidfile = NoPath)

\* worker w takes a step
Steps(w) ==
    w \in DOMAIN workers /\ w \in DOMAIN workers' /\ workers'[w] /= workers[w]

\* C38: a worker of the async path never deletes a recurring job: a step
\* of such a worker removes from all_scheduled_jobs at most the one-shot
\* row the async claim returned for it, never a row with an interval and
\* never a row that was not claimed for this worker.
C38_AsyncKeepsRecurring ==
    [][\A w \in DOMAIN workers :
          Steps(w) /\ workers[w].kind = "async" =>
             \A j \in DOMAIN all_scheduled_jobs \ DOMAIN all_scheduled_jobs' :
                /\ all_scheduled_jobs[j].interval = NULL
                /\ workers[w].job.src = "scheduled"
                /\ workers[w].job.job = j]_vars

\* daemon d has passed the pid file check and has not left main()
Passed(d) ==
    d_pc[d] \in {"daemonize", "write_pidfile", "remove_pidfile"}
                  \cup DaemonLoopPcs

\* C39: of two daemons started with the same pid file path at most one is
\* past the pid file check at any time, and the pid file one of them wrote
\* is never overwritten by the other, however their checks and their
\* writes interleave.
C39_OnePassesPidfileCheck ==
    [][\A d, e \in Daemons :
          (d /= e /\ d_pidfile[d] = d_pidfile[e]) =>
             /\ ~(Passed(d)' /\ Passed(e)')
             /\ fs[d_pidfile[d]] = e => fs'[d_pidfile[d]] /= d]_vars

====
